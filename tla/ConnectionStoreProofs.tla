----------------------- MODULE ConnectionStoreProofs ------------------------
(***************************************************************************)
(* Theorems about ConnectionStore, for any number of operations, of those  *)
(* at work at a time and of crashes, any profiles and any history: a file  *)
(* is whole unless one that wrote it did so while another was writing, the *)
(* list comes back as it was kept, and no password stays behind.           *)
(***************************************************************************)
EXTENDS ConnectionStore, FiniteSetTheorems, WellFoundedInduction, TLAPS

USE OpsAssumption DEF None, Ops, Stores

\* A request is for one store, whichever it is.
LEMMA StoreTypes == \A r : StoreOf(r) \in Stores
  BY DEF StoreOf

LEMMA InitInv == Init => IInv
<1> SUFFICES ASSUME Init PROVE IInv
  OBVIOUS
<1>1. TypeOK
  BY DEF Init, TypeOK, Places, Over
<1>2. FilesApart /\ MixedKnown /\ Written /\ TempShared /\ FileIsWhole
  BY DEF Init, FilesApart, MixedKnown, Writing, Written, TempShared, FileIsWhole, Over
<1> QED BY <1>1, <1>2 DEF IInv

LEMMA BeginKeeps == ASSUME IInv, NEW o \in Ops, Begin(o) PROVE IInv'
<1>1. PICK r \in Requests :
        /\ memory' = [memory EXCEPT ![StoreOf(r)] = Changed(@, r)]
        /\ request' = [request EXCEPT ![o] = r]
        /\ at' \in {[at EXCEPT ![o] = "done"], [at EXCEPT ![o] = "encode"]}
  BY DEF Begin, Goto
<1>2. loaded = Stores /\ at[o] = "idle"
      /\ UNCHANGED <<loaded, file, temp, content, payload, handle, mixed>>
  BY DEF Begin, disk
<1>3. /\ \A p \in Ops : p # o => at'[p] = at[p] /\ request'[p] = request[p]
      /\ at'[o] \in {"done", "encode"} /\ request'[o] = r
  BY <1>1 DEF IInv, TypeOK
<1>4. TypeOK'
  <2>1. at' \in [Ops -> Places]
    BY <1>1 DEF IInv, TypeOK, Places, Over
  <2>2. request' \in [Ops -> Requests \cup {NoRequest}]
    BY <1>1 DEF IInv, TypeOK
  <2>3. DOMAIN memory' = Stores
    BY <1>1 DEF IInv, TypeOK
  <2> QED BY <2>1, <2>2, <2>3, <1>2 DEF IInv, TypeOK
<1>5. \A p \in Ops : p # o => Store(p)' = Store(p)
  BY <1>3 DEF Store
<1>6. \A f \in Ops, t \in Stores : Belongs(f, t) => Belongs(f, t)'
  BY <1>2, <1>3, <1>5 DEF Belongs
<1>7. \A p \in Ops :
        at'[p] \in {"open", "write", "rename"} => p # o /\ at[p] = at'[p] /\ Store(p)' = Store(p)
  BY <1>3, <1>5
<1>8. FilesApart'
  <2>1. \A p \in Ops : at'[p] \in {"idle", "encode", "open"} => at[p] \in {"idle", "encode", "open"}
    BY <1>2, <1>3
  <2>2. \A p \in Ops : at'[p] \in {"write", "rename"} =>
          (handle[p] # None /\ Belongs(handle[p], Store(p)))'
    BY <1>2, <1>6, <1>7, StoreTypes DEF IInv, TypeOK, FilesApart, Store
  <2> QED BY <2>1, <2>2, <1>2, <1>6 DEF IInv, TypeOK, FilesApart
<1>9. MixedKnown'
  BY <1>2, <1>3, <1>7 DEF IInv, TypeOK, MixedKnown, Writing
<1>10. Written' /\ TempShared'
  BY <1>2, <1>3, <1>7 DEF IInv, Written, TempShared, Over
<1>11. FileIsWhole'
  BY <1>2 DEF IInv, FileIsWhole
<1> QED BY <1>4, <1>8, <1>9, <1>10, <1>11 DEF IInv

\* Whoever begins to write while another does is known to the history, and so
\* is the other.
LEMMA EncodeKeeps == ASSUME IInv, NEW o \in Ops, Encode(o) PROVE IInv'
<1>1. /\ at[o] = "encode" /\ at' = [at EXCEPT ![o] = "open"]
      /\ payload' = [payload EXCEPT ![o] = memory[Store(o)]]
      /\ mixed' = IF Writing(Store(o)) = {} THEN mixed
                  ELSE mixed \cup Writing(Store(o)) \cup {o}
      /\ UNCHANGED <<memory, loaded, file, temp, content, request, handle>>
  BY DEF Encode, Goto, disk
<1>2. /\ at' \in [Ops -> Places] /\ at'[o] = "open"
      /\ \A p \in Ops : p # o => at'[p] = at[p] /\ payload'[p] = payload[p]
      /\ DOMAIN payload' = Ops
  BY <1>1 DEF IInv, TypeOK, Places
<1>3. \A p \in Ops : Store(p)' = Store(p)
  BY <1>1 DEF Store
<1>4. mixed \subseteq mixed' /\ mixed' \subseteq Ops
  BY <1>1 DEF IInv, TypeOK, Writing
<1>5. TypeOK'
  BY <1>1, <1>2, <1>4 DEF IInv, TypeOK
<1>6. FilesApart' /\ FileIsWhole'
  <2>1. \A f \in Ops, t \in Stores : Belongs(f, t) => Belongs(f, t)'
    BY <1>1, <1>2, <1>3 DEF Belongs
  <2> QED BY <2>1, <1>1, <1>2, <1>3, <1>4, StoreTypes
          DEF IInv, TypeOK, FilesApart, FileIsWhole, Store
<1>7. MixedKnown'
  <2>1. \A p \in Ops, s \in Stores : p # o => (p \in Writing(s)' <=> p \in Writing(s))
    BY <1>2, <1>3 DEF Writing
  <2>2. \A p \in Ops, s \in Stores :
          p # o /\ o \in Writing(s)' /\ p \in Writing(s) => o \in mixed' /\ p \in mixed'
    BY <1>1, <1>3 DEF Writing
  <2>3. \A p \in mixed' : at'[p] \notin {"idle", "encode"}
    BY <1>1, <1>2, <1>4 DEF IInv, MixedKnown, Writing
  <2> QED BY <2>1, <2>2, <2>3, <1>4 DEF IInv, MixedKnown
<1>8. Written' /\ TempShared'
  BY <1>1, <1>2, <1>3, <1>4 DEF IInv, Written, TempShared, Over
<1> QED BY <1>5, <1>6, <1>7, <1>8 DEF IInv

\* A step of an operation that is on its way to the disk or past it.
LEMMA WorkKeeps ==
  ASSUME IInv, NEW o \in Ops, at[o] \in {"open", "write", "rename", "password"},
         NEW place \in {"write", "rename", "password", "done", "failed"},
         place \in {"write", "rename"} => at[o] \in {"open", "write", "rename"},
         at' = [at EXCEPT ![o] = place], UNCHANGED <<memory, loaded, request, payload, mixed>>
  PROVE  /\ at' \in [Ops -> Places]
         /\ \A p \in Ops : Store(p)' = Store(p)
         /\ \A p \in Ops : p # o => at'[p] = at[p]
         /\ at'[o] = place
         /\ MixedKnown'
         /\ \A p \in Ops : at'[p] \notin Over => loaded' = Stores
         /\ \A f \in Ops, t \in Stores : Belongs(f, t) => Belongs(f, t)'
<1>1. at' \in [Ops -> Places] /\ at'[o] = place /\ \A p \in Ops : p # o => at'[p] = at[p]
  BY DEF IInv, TypeOK, Places, Over
<1>2. \A p \in Ops : Store(p)' = Store(p)
  BY DEF Store
<1>3. MixedKnown'
  <2>1. \A p \in Ops, s \in Stores : p \in Writing(s)' => p \in Writing(s)
    BY <1>1, <1>2 DEF Writing
  <2> QED BY <2>1, <1>1 DEF IInv, TypeOK, MixedKnown
<1>4. \A p \in Ops : at'[p] \notin Over => loaded' = Stores
  BY <1>1 DEF IInv, Written, Over
<1>5. \A f \in Ops, t \in Stores : Belongs(f, t) => Belongs(f, t)'
  BY <1>1, <1>2 DEF Belongs
<1> QED BY <1>1, <1>2, <1>3, <1>4, <1>5

\* What one that writes does to the temporary file of its store and to the file
\* it holds is nothing to another that writes and is not mixed.
LEMMA OthersApart ==
  ASSUME IInv, NEW o \in Ops, at[o] \in {"open", "write", "rename"},
         NEW p \in Ops, p # o, p \notin mixed, at[p] \in {"write", "rename"}
  PROVE  /\ Store(p) \in Stores /\ Store(p) # Store(o)
         /\ handle[p] \in Ops /\ handle[p] = temp[Store(p)]
         /\ \A f \in Ops : Store(f) = Store(o) => handle[p] # f
<1>1. Store(p) \in Stores /\ Store(o) \in Stores
  BY StoreTypes DEF Store
<1>2. Store(p) # Store(o)
  BY <1>1 DEF IInv, MixedKnown, Writing
<1>3. handle[p] \in Ops /\ handle[p] = temp[Store(p)] /\ Store(handle[p]) = Store(p)
  BY DEF IInv, TypeOK, Written, FilesApart, Belongs
<1> QED BY <1>1, <1>2, <1>3

LEMMA OpenKeeps == ASSUME IInv, NEW o \in Ops, Open(o) PROVE IInv'
<1>0. PICK s \in Stores, f \in Ops :
         s = Store(o) /\ f = IF temp[s] = None THEN o ELSE temp[s]
  BY StoreTypes DEF IInv, TypeOK, Store
<1>1. /\ at[o] = "open" /\ at' = [at EXCEPT ![o] = "write"]
      /\ temp' = [temp EXCEPT ![s] = f]
      /\ content' = [content EXCEPT ![f] = Torn]
      /\ handle' = [handle EXCEPT ![o] = f]
      /\ UNCHANGED <<memory, loaded, file, request, payload, mixed>>
  BY <1>0 DEF Open, Goto
<1>2. /\ at' \in [Ops -> Places] /\ at'[o] = "write"
      /\ \A p \in Ops : Store(p)' = Store(p)
      /\ \A p \in Ops : p # o => at'[p] = at[p]
      /\ MixedKnown'
      /\ \A p \in Ops : at'[p] \notin Over => loaded' = Stores
      /\ \A g \in Ops, t \in Stores : Belongs(g, t) => Belongs(g, t)'
  BY <1>1, WorkKeeps
<1>3. \A t \in Stores : file[t] # f /\ (t # s => temp[t] # f)
  BY <1>0, <1>1 DEF IInv, FilesApart, Belongs, TypeOK
<1>4. Store(f) = s /\ (f # o => Belongs(f, s))
  BY <1>1, <1>0 DEF IInv, FilesApart, Belongs
<1>5. /\ \A t \in Stores : temp'[t] = IF t = s THEN f ELSE temp[t]
      /\ \A g \in Ops : content'[g] = IF g = f THEN Torn ELSE content[g]
      /\ \A p \in Ops : handle'[p] = IF p = o THEN f ELSE handle[p]
      /\ handle[o] = None
  BY <1>1, <1>0 DEF IInv, TypeOK, FilesApart
<1>6. TypeOK'
  BY <1>1, <1>2, <1>0 DEF IInv, TypeOK
<1>7. Belongs(f, s)'
  BY <1>2, <1>0, <1>4 DEF Belongs
<1>8. FilesApart'
  <2>1. \A t \in Stores :
          /\ file'[t] # None => Belongs(file[t], t)' /\ file'[t] # temp'[t]
          /\ temp'[t] # None => Belongs(temp[t], t)'
    BY <1>1, <1>2, <1>3, <1>5, <1>7 DEF IInv, TypeOK, FilesApart
  <2>2. \A p \in Ops : at'[p] \in {"idle", "encode", "open"} => handle'[p] = None
    BY <1>2, <1>5 DEF IInv, FilesApart
  <2>3. ASSUME NEW p \in Ops, at'[p] \in {"write", "rename"}
        PROVE  (handle[p] # None /\ Belongs(handle[p], Store(p)))'
    <3>1. CASE p = o
      BY <3>1, <1>0, <1>2, <1>5, <1>7 DEF Belongs
    <3>2. CASE p # o
      <4>1. PICK g \in Ops, t \in Stores : g = handle[p] /\ t = Store(p)
        BY <2>3, <3>2, <1>2, StoreTypes DEF IInv, TypeOK, FilesApart, Store
      <4>2. Belongs(g, t)'
        BY <2>3, <3>2, <4>1, <1>2 DEF IInv, FilesApart
      <4>3. handle'[p] = g /\ Store(p)' = t
        BY <3>2, <4>1, <1>2, <1>5
      <4> QED BY <4>1, <4>2, <4>3 DEF Belongs
    <3> QED BY <3>1, <3>2
  <2> QED BY <2>1, <2>2, <2>3 DEF FilesApart
<1>9. FileIsWhole'
  BY <1>1, <1>3, <1>5 DEF IInv, TypeOK, FileIsWhole
<1>10. Written'
  <2>1. ASSUME NEW p \in Ops, p # o, p \notin mixed, at[p] \in {"write", "rename"}
        PROVE  handle'[p] = handle[p] /\ temp'[Store(p)] = temp[Store(p)]
               /\ content'[handle[p]] = content[handle[p]]
    BY <2>1, <1>0, <1>1, <1>4, <1>5, OthersApart
  <2>2. handle'[o] = temp'[Store(o)'] /\ content'[handle'[o]] = Torn
    BY <1>0, <1>2, <1>5
  <2>3. ASSUME NEW p \in Ops, p # o, p \notin mixed'
        PROVE  /\ at'[p] \in {"write", "rename"} => handle'[p] = temp'[Store(p)']
               /\ at'[p] = "write" => content'[handle'[p]] = Torn
               /\ at'[p] = "rename" => content'[handle'[p]] = Whole(payload'[p])
    BY <2>1, <2>3, <1>1, <1>2 DEF IInv, Written
  <2> QED BY <2>2, <2>3, <1>2 DEF Written
<1>11. TempShared'
  <2>1. handle'[o] = temp'[Store(o)']
    BY <1>0, <1>2, <1>5
  <2>2. ASSUME NEW p \in Ops, p # o, at[p] \in {"write", "rename"}, Store(p) = s
        PROVE  o \in mixed' /\ handle'[o] = temp'[Store(p)]
    BY <2>2, <1>0, <1>1, <1>5 DEF IInv, MixedKnown, Writing
  <2>3. ASSUME NEW p \in Ops, p # o, at[p] \in {"write", "rename"}, Store(p) # s,
               temp'[Store(p)] # None
        PROVE  \/ handle'[p] = temp'[Store(p)]
               \/ \E q \in mixed : handle'[q] = temp'[Store(p)]
    <3>1. Store(p) \in Stores /\ temp'[Store(p)] = temp[Store(p)]
      BY <2>3, <1>5, StoreTypes DEF Store
    <3> QED BY <2>3, <3>1, <1>5 DEF IInv, TypeOK, TempShared
  <2> QED BY <2>1, <2>2, <2>3, <1>1, <1>2 DEF TempShared
<1> QED BY <1>2, <1>6, <1>8, <1>9, <1>10, <1>11 DEF IInv

\* What is written reaches the file under the name only through the handle of
\* one that wrote while another did.
LEMMA WriteKeeps == ASSUME IInv, NEW o \in Ops, Write(o) \/ WriteFails(o) PROVE IInv'
<1>0. PICK s \in Stores, f \in Ops : s = Store(o) /\ f = handle[o]
  BY StoreTypes DEF IInv, TypeOK, FilesApart, Write, WriteFails, Store
<1>1. /\ at[o] = "write" /\ Belongs(f, s)
      /\ o \notin mixed => f = temp[s] /\ content[f] = Torn
  BY <1>0 DEF IInv, FilesApart, Written, Write, WriteFails
<1>2. PICK place \in {"rename", "done", "failed"}, what \in {Torn, Whole(payload[o])} :
        /\ at' = [at EXCEPT ![o] = place]
        /\ content' = [content EXCEPT ![f] = what]
        /\ place = "rename" /\ o \notin mixed => what = Whole(payload[o])
  BY <1>0, <1>1 DEF Write, WriteFails, Fail, Goto
<1>3. UNCHANGED <<memory, loaded, file, temp, request, payload, handle, mixed>>
  BY DEF Write, WriteFails, Fail
<1>4. /\ at' \in [Ops -> Places] /\ at'[o] = place
      /\ \A p \in Ops : Store(p)' = Store(p)
      /\ \A p \in Ops : p # o => at'[p] = at[p]
      /\ MixedKnown'
      /\ \A p \in Ops : at'[p] \notin Over => loaded' = Stores
      /\ \A g \in Ops, t \in Stores : Belongs(g, t) => Belongs(g, t)'
  BY <1>1, <1>2, <1>3, WorkKeeps
<1>5. /\ \A g \in Ops : content'[g] = IF g = f THEN what ELSE content[g]
      /\ DOMAIN content' = Ops
  BY <1>2 DEF IInv, TypeOK
<1>6. TypeOK'
  BY <1>3, <1>4, <1>5 DEF IInv, TypeOK
<1>7. FilesApart'
  <2>1. \A p \in Ops : /\ at'[p] \in {"idle", "encode", "open"} => at[p] = at'[p]
                       /\ at'[p] \in {"write", "rename"} => at[p] \in {"write", "rename"}
    BY <1>1, <1>4
  <2> QED BY <2>1, <1>3, <1>4, StoreTypes DEF IInv, TypeOK, FilesApart, Store
<1>8. FileIsWhole'
  <2>1. ASSUME NEW t \in Stores, file[t] = f PROVE o \in mixed
    <3>1. t = s
      BY <2>1, <1>1 DEF IInv, FilesApart, Belongs
    <3> QED BY <2>1, <3>1, <1>1 DEF IInv, FilesApart
  <2> QED BY <2>1, <1>0, <1>3, <1>5 DEF IInv, TypeOK, FileIsWhole
<1>9. Written'
  <2>1. ASSUME NEW p \in Ops, p # o, p \notin mixed, at[p] \in {"write", "rename"}
        PROVE  content'[handle[p]] = content[handle[p]]
    <3>1. handle[p] \in Ops /\ handle[p] # f
      BY <2>1, <1>0, <1>1, OthersApart DEF Belongs
    <3> QED BY <3>1, <1>5
  <2>2. ASSUME NEW p \in Ops, p # o, p \notin mixed
        PROVE  /\ at'[p] \in {"write", "rename"} => handle'[p] = temp'[Store(p)']
               /\ at'[p] = "write" => content'[handle'[p]] = Torn
               /\ at'[p] = "rename" => content'[handle'[p]] = Whole(payload'[p])
    BY <2>1, <2>2, <1>3, <1>4 DEF IInv, Written
  <2>3. ASSUME place = "rename", o \notin mixed
        PROVE  handle'[o] = temp'[Store(o)'] /\ content'[handle'[o]] = Whole(payload'[o])
    BY <2>3, <1>0, <1>1, <1>2, <1>3, <1>4, <1>5
  <2> QED BY <2>2, <2>3, <1>3, <1>4 DEF Written
<1>10. TempShared'
  BY <1>1, <1>3, <1>4 DEF IInv, TempShared
<1> QED BY <1>4, <1>6, <1>7, <1>8, <1>9, <1>10 DEF IInv

\* The temporary file that takes the name was written to its end, or written by
\* two at once.
LEMMA RenameKeeps == ASSUME IInv, NEW o \in Ops, Rename(o) PROVE IInv'
<1>0. PICK s \in Stores : s = Store(o)
  BY StoreTypes DEF Store
<1>1. PICK place \in {"password", "done"} : at' = [at EXCEPT ![o] = place]
  BY DEF Rename, Goto
<1>2. /\ at[o] = "rename" /\ temp[s] # None
      /\ file' = [file EXCEPT ![s] = temp[s]]
      /\ temp' = [temp EXCEPT ![s] = None]
      /\ UNCHANGED <<memory, loaded, content, request, payload, handle, mixed>>
  BY <1>0 DEF Rename
<1>3. /\ at' \in [Ops -> Places] /\ at'[o] = place
      /\ \A p \in Ops : Store(p)' = Store(p)
      /\ \A p \in Ops : p # o => at'[p] = at[p]
      /\ MixedKnown'
      /\ \A p \in Ops : at'[p] \notin Over => loaded' = Stores
      /\ \A g \in Ops, t \in Stores : Belongs(g, t) => Belongs(g, t)'
  BY <1>1, <1>2, WorkKeeps
<1>4. /\ \A t \in Stores : file'[t] = IF t = s THEN temp[s] ELSE file[t]
      /\ \A t \in Stores : temp'[t] = IF t = s THEN None ELSE temp[t]
  BY <1>2 DEF IInv, TypeOK
<1>5. TypeOK'
  BY <1>2, <1>3 DEF IInv, TypeOK
<1>6. FilesApart'
  <2>1. \A t \in Stores :
          /\ file'[t] # None => Belongs(file[t], t)' /\ file'[t] # temp'[t]
          /\ temp'[t] # None => Belongs(temp[t], t)'
    BY <1>2, <1>3, <1>4 DEF IInv, TypeOK, FilesApart
  <2>2. \A p \in Ops : at'[p] \in {"idle", "encode", "open", "write", "rename"} => at[p] = at'[p]
    BY <1>1, <1>2, <1>3
  <2>3. \A p \in Ops :
          /\ at'[p] \in {"idle", "encode", "open"} => handle'[p] = None
          /\ at'[p] \in {"write", "rename"} => (handle[p] # None /\ Belongs(handle[p], Store(p)))'
    BY <2>2, <1>2, <1>3, StoreTypes DEF IInv, TypeOK, FilesApart, Store
  <2> QED BY <2>1, <2>3 DEF FilesApart
<1>7. FileIsWhole'
  <2>1. content[temp[s]].whole \/ \E p \in mixed : handle[p] = temp[s]
    <3>1. CASE o \in mixed
      BY <1>0, <1>2, <3>1 DEF IInv, TempShared
    <3>2. CASE o \notin mixed
      <4>1. content[temp[s]] = Whole(payload[o])
        BY <1>0, <1>2, <3>2 DEF IInv, Written
      <4> QED BY <4>1 DEF Whole
    <3> QED BY <3>1, <3>2
  <2> QED BY <2>1, <1>2, <1>4 DEF IInv, FileIsWhole
<1>8. Written'
  <2>1. ASSUME NEW p \in Ops, p # o, p \notin mixed, at[p] \in {"write", "rename"}
        PROVE  temp'[Store(p)] = temp[Store(p)]
    BY <2>1, <1>0, <1>2, <1>4, OthersApart
  <2> QED BY <2>1, <1>1, <1>2, <1>3 DEF IInv, Written
<1>9. TempShared'
  BY <1>1, <1>2, <1>3, <1>4, StoreTypes DEF IInv, TempShared, Store
<1> QED BY <1>3, <1>5, <1>6, <1>7, <1>8, <1>9 DEF IInv

\* An operation that ends, or fails after its file is closed.
LEMMA EndKeeps ==
  ASSUME IInv, NEW o \in Ops, RenameFails(o) \/ KeepPassword(o) \/ KeystoreFails(o)
  PROVE  IInv'
<1>1. PICK place \in {"done", "failed"} : at' = [at EXCEPT ![o] = place]
  BY DEF RenameFails, KeepPassword, KeystoreFails, Fail, Goto
<1>2. /\ at[o] \in {"rename", "password"}
      /\ UNCHANGED <<memory, loaded, file, temp, content, request, payload, handle, mixed>>
  BY DEF RenameFails, KeepPassword, KeystoreFails, Fail, disk
<1>3. /\ at' \in [Ops -> Places] /\ at'[o] = place
      /\ \A p \in Ops : Store(p)' = Store(p)
      /\ \A p \in Ops : p # o => at'[p] = at[p]
      /\ MixedKnown'
      /\ \A p \in Ops : at'[p] \notin Over => loaded' = Stores
      /\ \A g \in Ops, t \in Stores : Belongs(g, t) => Belongs(g, t)'
  BY <1>1, <1>2, WorkKeeps
<1>4. TypeOK'
  BY <1>2, <1>3 DEF IInv, TypeOK
<1>5. \A p \in Ops : at'[p] \in {"idle", "encode", "open", "write", "rename"} => at[p] = at'[p]
  BY <1>1, <1>3
<1>6. FilesApart'
  BY <1>2, <1>3, <1>5, StoreTypes DEF IInv, TypeOK, FilesApart, Store
<1>7. Written' /\ TempShared'
  BY <1>2, <1>3, <1>5 DEF IInv, Written, TempShared
<1>8. FileIsWhole'
  BY <1>2 DEF IInv, FileIsWhole
<1> QED BY <1>3, <1>4, <1>6, <1>7, <1>8 DEF IInv

\* A store is loaded before anything works on it, and a crash ends what does.
LEMMA LoadKeeps == ASSUME IInv, NEW s \in Stores, Load(s) PROVE IInv'
<1>1. /\ s \notin loaded /\ loaded' = loaded \cup {s} /\ DOMAIN memory' = Stores
      /\ UNCHANGED <<file, temp, content, at, request, payload, handle, mixed>>
  BY DEF Load, disk, ops, IInv, TypeOK
<1>2. \A o \in Ops : at[o] \in Over
  BY <1>1 DEF IInv, Written
<1> QED BY <1>1, <1>2
        DEF IInv, TypeOK, FilesApart, MixedKnown, Writing, Belongs, Store, Written, TempShared,
            FileIsWhole, Over

LEMMA CrashKeeps == ASSUME IInv, Crash PROVE IInv'
<1>1. /\ \A o \in Ops : at'[o] = IF at[o] \in Over THEN at[o] ELSE "lost"
      /\ at' \in [Ops -> Places]
  BY StoreTypes DEF Crash, IInv, TypeOK, Working, Places, Over, Store
<1>2. /\ loaded' = {} /\ DOMAIN memory' = Stores
      /\ UNCHANGED <<file, temp, content, request, payload, handle, mixed>>
  BY DEF Crash, disk
<1>3. TypeOK'
  BY <1>1, <1>2 DEF IInv, TypeOK
<1>4. MixedKnown' /\ Written' /\ TempShared'
  BY <1>1, <1>2 DEF IInv, TypeOK, MixedKnown, Writing, Written, TempShared, Over
<1>5. FilesApart' /\ FileIsWhole'
  BY <1>1, <1>2 DEF IInv, TypeOK, FilesApart, Belongs, Store, FileIsWhole, Over
<1> QED BY <1>3, <1>4, <1>5 DEF IInv

LEMMA StepInv == ASSUME IInv, [Next]_vars PROVE IInv'
<1>1. CASE UNCHANGED vars
  BY <1>1 DEF vars, disk, ops, IInv, TypeOK, FilesApart, MixedKnown, Writing, Belongs, Store,
              Written, TempShared, FileIsWhole
<1> QED BY <1>1, BeginKeeps, EncodeKeeps, OpenKeeps, WriteKeeps, RenameKeeps, EndKeeps,
           LoadKeeps, CrashKeeps DEF Next

-----------------------------------------------------------------------------

\* Who may touch which file and what is in it, however many operations write at
\* once: what holds of those that write alone, and what two that do not share.
THEOREM Inv == Spec => []IInv
<1>1. IInv /\ [Next]_vars => IInv'
  BY StepInv
<1> QED BY <1>1, InitInv, PTL DEF Spec

\* The file under a store's name is never half written (_persist's temporary
\* file and rename), whenever the app is killed and whatever fails, unless one
\* that wrote it did so while another was writing.
THEOREM FileStaysWhole == Spec => []FileIsWhole
<1>1. IInv => FileIsWhole
  BY DEF IInv
<1> QED BY <1>1, Inv, PTL

-----------------------------------------------------------------------------
(* The list that is kept.                                                  *)

LEMMA InitKept == Init => Book!Init
<1>1. Init => Writing("connections") = {}
  BY DEF Init, Writing
<1> QED BY <1>1 DEF Init, Book!Init, OnDisk, Up, Shown, Taken

\* What is on its way is the list of the one that writes, where it writes alone.
LEMMA LoneTaken ==
  ASSUME IInv, NEW o \in Writing("connections"), Writing("connections") \cap mixed = {}
  PROVE  Writing("connections") = {o} /\ Taken = payload[o] /\ o \notin mixed
<1>1. Writing("connections") = {o}
  BY DEF IInv, MixedKnown, Writing
<1> QED BY <1>1 DEF Taken

LEMMA SameTaken ==
  ASSUME UNCHANGED OnDisk("connections"),
         Writing("connections")' = Writing("connections"),
         \A p \in Writing("connections") : payload'[p] = payload[p]
  PROVE  UNCHANGED Taken
<1>1. CASE Writing("connections") = {}
  BY <1>1 DEF Taken
<1>2. CASE Writing("connections") # {}
  <2> DEFINE o == CHOOSE p \in Writing("connections") : TRUE
  <2>1. o \in Writing("connections")
    BY <1>2
  <2>2. Taken = payload[o] /\ Taken' = payload'[o]
    BY <1>2 DEF Taken
  <2> QED BY <2>1, <2>2
<1> QED BY <1>1, <1>2

\* Of a step that takes no operation to the disk nor off it, and
LEMMA SameWriting ==
  ASSUME NEW o \in Ops, \A p \in Ops : p # o => at'[p] = at[p] /\ Store(p)' = Store(p),
         \/ /\ at[o] \notin {"open", "write", "rename"}
            /\ at'[o] \notin {"open", "write", "rename"}
         \/ /\ at[o] \in {"open", "write", "rename"}
            /\ at'[o] \in {"open", "write", "rename"}
            /\ Store(o)' = Store(o)
         \/ Store(o) # "connections" /\ Store(o)' = Store(o)
  PROVE  Writing("connections")' = Writing("connections")
BY DEF Writing

\* of one that takes it off.
LEMMA EndsWriting ==
  ASSUME NEW o \in Ops, \A p \in Ops : p # o => at'[p] = at[p],
         \A p \in Ops : Store(p)' = Store(p),
         Writing("connections") = {o}, at'[o] \notin {"open", "write", "rename"}
  PROVE  Writing("connections")' = {} /\ Taken' = OnDisk("connections")'
<1>1. Writing("connections")' = {}
  BY DEF Writing
<1> QED BY <1>1 DEF Taken

\* What an operation does to the list is an edit of one profile.
LEMMA BeginEdits ==
  ASSUME IInv, NEW o \in Ops, Begin(o)
  PROVE  Book!Edit \/ UNCHANGED <<Up, Shown, Taken, OnDisk("connections")>>
<1>1. PICK r \in Requests :
        /\ memory' = [memory EXCEPT ![StoreOf(r)] = Changed(@, r)]
        /\ request' = [request EXCEPT ![o] = r]
        /\ at' \in {[at EXCEPT ![o] = "done"], [at EXCEPT ![o] = "encode"]}
  BY DEF Begin, Goto
<1>2. loaded = Stores /\ at[o] = "idle" /\ UNCHANGED <<loaded, disk, payload>>
  BY DEF Begin
<1>3. UNCHANGED OnDisk("connections")
  BY <1>2 DEF OnDisk, disk
<1>4. UNCHANGED Taken
  <2>1. /\ \A p \in Ops : p # o => at'[p] = at[p] /\ request'[p] = request[p]
        /\ at'[o] \in {"done", "encode"}
    BY <1>1 DEF IInv, TypeOK
  <2>2. Writing("connections")' = Writing("connections")
    BY <1>2, <2>1, SameWriting DEF Store
  <2> QED BY <1>2, <1>3, <2>2, SameTaken
<1> DEFINE list == memory["connections"]
<1>5. CASE StoreOf(r) = "history"
  BY <1>1, <1>2, <1>3, <1>4, <1>5 DEF IInv, TypeOK, Up, Shown
<1>6. CASE StoreOf(r) = "connections"
  <2>1. memory'["connections"] = Changed(list, r)
    BY <1>1, <1>6 DEF IInv, TypeOK
  <2>2. CASE r.kind = "save"
    <3>1. r.profile \in Profiles
      BY <2>2 DEF Requests
    <3>2. memory'["connections"] = Book!Saved(list, r.profile)
      BY <2>1, <2>2 DEF Changed, Save, Book!Saved
    <3> QED BY <3>1, <3>2, <1>2, <1>3, <1>4 DEF Book!Edit, Up, Shown
  <2>3. CASE r.kind = "delete"
    <3>1. r.id \in Ids
      BY <2>3 DEF Requests
    <3>2. memory'["connections"] = Book!Without(list, r.id)
      BY <2>1, <2>3 DEF Changed, Delete, Book!Without
    <3> QED BY <3>1, <3>2, <1>2, <1>3, <1>4 DEF Book!Edit, Ids, Up, Shown
  <2>4. CASE r.kind = "touch"
    <3>1. r.id \in Ids
      BY <2>4 DEF Requests
    <3>2. memory'["connections"] = Book!Used(list, r.id)
      BY <2>1, <2>4 DEF Changed, Touch, Book!Used
    <3> QED BY <3>1, <3>2, <1>2, <1>3, <1>4 DEF Book!Edit, Ids, Up, Shown
  <2> QED BY <2>2, <2>3, <2>4, <1>6 DEF Requests, StoreOf
<1> QED BY <1>5, <1>6 DEF StoreOf

\* The list is taken as it is shown, or it is taken while another is on its way.
LEMMA EncodeTakes ==
  ASSUME IInv, NEW o \in Ops, Encode(o), (Writing("connections") \cap mixed)' = {}
  PROVE  Book!Take \/ UNCHANGED <<Up, Shown, Taken, OnDisk("connections")>>
<1>1. /\ at[o] = "encode" /\ payload' = [payload EXCEPT ![o] = memory[Store(o)]]
      /\ mixed' = IF Writing(Store(o)) = {} THEN mixed
                  ELSE mixed \cup Writing(Store(o)) \cup {o}
      /\ UNCHANGED <<memory, loaded, file, content, request>>
  BY DEF Encode, disk
<1>2. at'[o] = "open" /\ \A p \in Ops : p # o => at'[p] = at[p] /\ payload'[p] = payload[p]
  BY DEF Encode, Goto, IInv, TypeOK
<1>3. UNCHANGED <<Up, Shown, OnDisk("connections")>> /\ \A p \in Ops : Store(p)' = Store(p)
  BY <1>1 DEF Up, Shown, OnDisk, Store
<1>4. CASE Store(o) # "connections"
  <2>1. Writing("connections")' = Writing("connections") /\ o \notin Writing("connections")
    BY <1>1, <1>2, <1>3, <1>4, SameWriting DEF Writing
  <2>2. \A p \in Writing("connections") : payload'[p] = payload[p]
    BY <1>2, <2>1 DEF Writing
  <2> QED BY <1>3, <2>1, <2>2, SameTaken
<1>5. CASE Store(o) = "connections"
  <2>1. o \in Writing("connections")'
    BY <1>2, <1>3, <1>5 DEF Writing
  <2>2. Writing("connections") = {}
    BY <1>1, <1>5, <2>1
  <2>3. Writing("connections")' = {o}
    BY <1>2, <1>3, <2>1, <2>2 DEF Writing
  <2>4. Taken' = payload'[o]
    BY <2>3 DEF Taken
  <2>5. loaded = Stores /\ payload'[o] = memory["connections"]
    BY <1>1, <1>5 DEF IInv, TypeOK, Written, Over
  <2> QED BY <1>3, <2>4, <2>5 DEF Book!Take, Up, Shown
<1> QED BY <1>4, <1>5

\* What one that writes alone writes does not show until it is renamed,
LEMMA WritesBeside ==
  ASSUME IInv, NEW o \in Ops, Open(o) \/ Write(o) \/ WriteFails(o),
         Store(o) = "connections" => o \notin mixed
  PROVE  UNCHANGED <<Up, Shown, OnDisk("connections")>>
<1>1. UNCHANGED <<memory, loaded, file>>
  BY DEF Open, Write, WriteFails
<1>2. PICK g \in Ops, t \in {Torn, Whole(payload[o])} :
        /\ content' = [content EXCEPT ![g] = t]
        /\ g = o \/ g = temp[Store(o)] \/ g = handle[o]
        /\ Open(o) => g = IF temp[Store(o)] = None THEN o ELSE temp[Store(o)]
        /\ ~Open(o) => g = handle[o] /\ at[o] = "write"
  BY StoreTypes DEF Open, Write, WriteFails, IInv, TypeOK, FilesApart, Store
<1>3. file["connections"] # None => g # file["connections"]
  <2>1. CASE Open(o)
    <3>1. at[o] = "open" /\ Store(o) \in Stores
      BY <2>1, StoreTypes DEF Open, Store
    <3> QED BY <1>2, <2>1, <3>1 DEF IInv, FilesApart, Belongs
  <2>2. CASE ~Open(o)
    <3>1. g = handle[o] /\ at[o] = "write" /\ Belongs(g, Store(o)) /\ Store(o) \in Stores
      BY <1>2, <2>2, StoreTypes DEF IInv, FilesApart, Store
    <3>2. CASE Store(o) = "connections"
      <4>1. g = temp["connections"]
        BY <3>1, <3>2 DEF IInv, Written
      <4> QED BY <4>1 DEF IInv, FilesApart
    <3>3. CASE Store(o) # "connections"
      BY <3>1, <3>3 DEF IInv, FilesApart, Belongs
    <3> QED BY <3>2, <3>3
  <2> QED BY <2>1, <2>2
<1>4. file["connections"] # None =>
        content'[file["connections"]] = content[file["connections"]]
  BY <1>2, <1>3 DEF IInv, TypeOK
<1> QED BY <1>1, <1>4 DEF OnDisk, Up, Shown

\* where it is on its way, or no longer is,
LEMMA WritesTake ==
  ASSUME IInv, NEW o \in Ops, Open(o) \/ Write(o) \/ WriteFails(o),
         Writing("connections") \cap mixed = {}
  PROVE  Book!Drop \/ UNCHANGED <<Up, Shown, Taken, OnDisk("connections")>>
<1>1. /\ at[o] \in {"open", "write"} /\ UNCHANGED <<request, payload>>
      /\ \A p \in Ops : p # o => at'[p] = at[p]
      /\ at'[o] \in {"write", "rename", "done", "failed"}
  BY DEF Open, Write, WriteFails, Fail, Goto, IInv, TypeOK
<1>2. \A p \in Ops : Store(p)' = Store(p)
  BY <1>1 DEF Store
<1>3. UNCHANGED <<Up, Shown, OnDisk("connections")>>
  BY <1>1, WritesBeside DEF Writing
<1>4. CASE at'[o] \in {"write", "rename"} \/ Store(o) # "connections"
  <2>1. Writing("connections")' = Writing("connections")
    BY <1>1, <1>2, <1>4, SameWriting
  <2> QED BY <1>1, <1>3, <2>1, SameTaken
<1>5. CASE at'[o] \in {"done", "failed"} /\ Store(o) = "connections"
  <2>1. Writing("connections") = {o}
    BY <1>1, <1>5, LoneTaken DEF Writing
  <2>2. Taken' = OnDisk("connections")'
    BY <1>1, <1>2, <1>5, <2>1, EndsWriting
  <2> QED BY <1>3, <2>2 DEF Book!Drop
<1> QED BY <1>1, <1>4, <1>5

\* and then it is the list that is kept.
LEMMA RenameReplaces ==
  ASSUME IInv, NEW o \in Ops, Rename(o), Writing("connections") \cap mixed = {}
  PROVE  /\ UNCHANGED <<Up, Shown>>
         /\ Store(o) = "connections" =>
              /\ OnDisk("connections")' = payload[o] /\ Taken = payload[o]
              /\ Writing("connections") = {o} /\ Writing("connections")' = {}
              /\ UNCHANGED Taken
         /\ Store(o) # "connections" =>
              /\ Writing("connections")' = Writing("connections")
              /\ UNCHANGED <<Taken, OnDisk("connections")>>
<1>1. /\ at[o] = "rename" /\ UNCHANGED <<memory, loaded, content, request, payload>>
      /\ file' = [file EXCEPT ![Store(o)] = temp[Store(o)]]
      /\ \A p \in Ops : p # o => at'[p] = at[p]
      /\ at'[o] \in {"password", "done"}
  BY DEF Rename, Goto, IInv, TypeOK
<1>2. \A p \in Ops : Store(p)' = Store(p)
  BY <1>1 DEF Store
<1>3. CASE Store(o) = "connections"
  <2>1. Writing("connections") = {o} /\ Taken = payload[o] /\ o \notin mixed
    BY <1>1, <1>3, LoneTaken DEF Writing
  <2>2. /\ loaded = Stores /\ content[temp["connections"]] = Whole(payload[o])
        /\ temp["connections"] # None
    BY <1>1, <1>3, <2>1 DEF IInv, FilesApart, Written, Over
  <2>3. OnDisk("connections")' = payload[o]
    BY <1>1, <1>3, <2>2 DEF OnDisk, Whole, IInv, TypeOK
  <2>4. Writing("connections")' = {} /\ Taken' = OnDisk("connections")'
    BY <1>1, <1>2, <2>1, EndsWriting
  <2> QED BY <1>1, <1>3, <2>1, <2>2, <2>3, <2>4 DEF Up, Shown
<1>4. CASE Store(o) # "connections"
  <2>1. UNCHANGED <<Up, Shown, OnDisk("connections")>>
    BY <1>1, <1>4 DEF OnDisk, Up, Shown, IInv, TypeOK
  <2>2. Writing("connections")' = Writing("connections")
    BY <1>1, <1>2, <1>4, SameWriting
  <2> QED BY <1>1, <1>4, <2>1, <2>2, SameTaken
<1> QED BY <1>3, <1>4

LEMMA EndDrops ==
  ASSUME IInv, NEW o \in Ops, RenameFails(o) \/ KeepPassword(o) \/ KeystoreFails(o),
         Writing("connections") \cap mixed = {}
  PROVE  Book!Drop \/ UNCHANGED <<Up, Shown, Taken, OnDisk("connections")>>
<1>1. /\ at[o] \in {"rename", "password"}
      /\ UNCHANGED <<memory, loaded, file, content, request, payload>>
      /\ \A p \in Ops : p # o => at'[p] = at[p]
      /\ at'[o] \in {"done", "failed"}
  BY DEF RenameFails, KeepPassword, KeystoreFails, Fail, Goto, disk, IInv, TypeOK
<1>2. \A p \in Ops : Store(p)' = Store(p)
  BY <1>1 DEF Store
<1>3. UNCHANGED <<Up, Shown, OnDisk("connections")>>
  BY <1>1 DEF Up, Shown, OnDisk
<1>4. CASE at[o] = "password" \/ Store(o) # "connections"
  <2>1. Writing("connections")' = Writing("connections")
    BY <1>1, <1>2, <1>4, SameWriting
  <2> QED BY <1>1, <1>3, <2>1, SameTaken
<1>5. CASE at[o] = "rename" /\ Store(o) = "connections"
  <2>1. Writing("connections") = {o}
    BY <1>5, LoneTaken DEF Writing
  <2>2. Taken' = OnDisk("connections")'
    BY <1>1, <1>2, <2>1, EndsWriting
  <2> QED BY <1>3, <2>2 DEF Book!Drop
<1> QED BY <1>1, <1>4, <1>5

LEMMA LoadShows ==
  ASSUME IInv, NEW s \in Stores, Load(s)
  PROVE  Book!ComeBack \/ UNCHANGED <<Up, Shown, Taken, OnDisk("connections")>>
<1>1. UNCHANGED <<Shown, OnDisk("connections")>> /\ (Up => Up')
  BY DEF Load, Up, Shown, OnDisk, disk, IInv, TypeOK
<1>2. UNCHANGED <<at, request, payload>>
  BY DEF Load, ops
<1>3. UNCHANGED Taken
  BY <1>1, <1>2, SameTaken DEF Writing, Store
<1> QED BY <1>1, <1>3 DEF Book!ComeBack, Up

LEMMA CrashStops == ASSUME IInv, Crash PROVE Book!Stop
<1>1. ~Up' /\ UNCHANGED OnDisk("connections") /\ Shown' = OnDisk("connections")
  BY DEF Crash, OnDisk, Up, Shown, disk
<1>2. \A o \in Ops : at'[o] \in Over
  BY StoreTypes DEF Crash, IInv, TypeOK, Working, Places, Over, Store
<1>3. Writing("connections")' = {}
  BY <1>2 DEF Writing, Over
<1> QED BY <1>1, <1>3 DEF Book!Stop, Taken

LEMMA StepKeeps ==
  ASSUME IInv, [Next]_vars
  PROVE  [Book!Next]_<<Up, Shown, Taken, OnDisk("connections"),
                       Writing("connections") \cap mixed # {}>>
<1>1. CASE Writing("connections") \cap mixed # {} \/ (Writing("connections") \cap mixed)' # {}
  BY <1>1 DEF Book!Next
<1>2. CASE /\ Writing("connections") \cap mixed = {}
           /\ (Writing("connections") \cap mixed)' = {}
  <2> SUFFICES \/ Book!Edit \/ Book!Take \/ Book!Drop \/ Book!Keep \/ Book!Stop
               \/ Book!ComeBack
               \/ UNCHANGED <<Up, Shown, Taken, OnDisk("connections")>>
    BY <1>2 DEF Book!Next
  <2>1. CASE Crash
    BY <2>1, CrashStops
  <2>2. ASSUME NEW o \in Ops, Rename(o)
        PROVE  Book!Keep \/ UNCHANGED <<Up, Shown, Taken, OnDisk("connections")>>
    BY <1>2, <2>2, RenameReplaces DEF Book!Keep
  <2>3. CASE UNCHANGED vars
    BY <2>3 DEF vars, disk, ops, Up, Shown, Taken, OnDisk, Writing, Store
  <2> QED BY <1>2, <2>1, <2>2, <2>3, LoadShows, BeginEdits, EncodeTakes, WritesTake, EndDrops
          DEF Next
<1> QED BY <1>1, <1>2

\* The store is a DurableList: the list on the disk is one the app showed when
\* it was taken, replaced only by one taken later, and the app comes back with
\* it; but for what two edits leave that are written at once.
THEOREM BookKept == Spec => KeepsTheBook
<1>1. IInv /\ [Next]_vars =>
        [Book!Next]_<<Up, Shown, Taken, OnDisk("connections"),
                      Writing("connections") \cap mixed # {}>>
  BY StepKeeps
<1> QED BY <1>1, InitKept, Inv, PTL DEF Spec, KeepsTheBook, Book!Spec

-----------------------------------------------------------------------------
(* What the edits leave in a list.                                         *)

\* The induction over a list: of the numbers that are an exception, one is the
\* least.
LEMMA Least == ASSUME NEW T \in SUBSET Nat, T # {} PROVE \E m \in T : \A k \in T : m <= k
<1> DEFINE R == OpToRel(<, Nat)
<1>1. IsWellFoundedOn(R, Nat)
  BY NatLessThanWellFounded
<1>2. \A i, k \in Nat : <<i, k>> \in R <=> i < k
  BY DEF OpToRel
<1> HIDE DEF R
<1>3. PICK m \in T : \A k \in T : <<k, m>> \notin R
  BY <1>1, WFMin
<1>4. ASSUME NEW k \in T PROVE m <= k
  <2>1. m \in Nat /\ k \in Nat
    OBVIOUS
  <2>2. ~(k < m)
    BY <1>2, <1>3, <2>1
  <2> QED BY <2>1, <2>2
<1> QED BY <1>4

Kept1(list, id, kept, n) ==
  IF n = 0 THEN <<>>
  ELSE IF list[n].id = id THEN kept[n - 1] ELSE Append(kept[n - 1], list[n])

LEMMA KeptExists ==
  ASSUME NEW list, NEW id, NEW len \in Nat
  PROVE  \E kept : kept = [n \in 0..len |-> Kept1(list, id, kept, n)]
<1> DEFINE Is(m, g) == g = [n \in 0..m |-> Kept1(list, id, g, n)]
           T == {m \in Nat : ~ \E g : Is(m, g)}
<1>1. SUFFICES ASSUME T # {} PROVE FALSE
  OBVIOUS
<1>2. PICK m \in T : \A k \in T : m <= k
  <2> HIDE DEF T
  <2>1. T \in SUBSET Nat
    BY DEF T
  <2> QED BY <1>1, <2>1, Least
<1>3. CASE m = 0
  <2>1. Is(0, [n \in 0..0 |-> <<>>])
    BY DEF Kept1
  <2> QED BY <1>2, <1>3, <2>1
<1>4. CASE m # 0
  <2>1. PICK g : Is(m - 1, g)
    BY <1>2, <1>4
  <2> DEFINE h == [n \in 0..m |-> IF n = m THEN Kept1(list, id, g, m) ELSE g[n]]
  <2>2. \A n \in 0..m : Kept1(list, id, h, n) = Kept1(list, id, g, n)
    BY <1>2, <1>4 DEF Kept1
  <2>3. \A n \in 0..(m - 1) : g[n] = Kept1(list, id, g, n)
    BY <2>1
  <2>4. \A n \in 0..m : h[n] = Kept1(list, id, h, n)
    BY <1>2, <2>2, <2>3
  <2>5. Is(m, h)
    <3> HIDE DEF Kept1
    <3> QED BY <2>4
  <2> QED BY <1>2, <2>5
<1> QED BY <1>3, <1>4

\* Deleting keeps every profile of another id.
LEMMA DeleteKeeps ==
  ASSUME NEW list \in Seq(Connections), NEW id
  PROVE  /\ Delete(list, id) \in Seq(Connections)
         /\ \A i \in Ids : Listed(list, i) /\ i # id => Listed(Delete(list, id), i)
<1> DEFINE kept == CHOOSE g : g = [n \in 0..Len(list) |-> Kept1(list, id, g, n)]
<1>1. kept = [n \in 0..Len(list) |-> Kept1(list, id, kept, n)]
  BY KeptExists
<1>2. Delete(list, id) = kept[Len(list)]
  BY DEF Delete, Kept1
<1> HIDE DEF kept
<1> DEFINE Fine(n) ==
      /\ kept[n] \in Seq(Connections)
      /\ \A k \in 1..n : list[k].id # id => \E m \in DOMAIN kept[n] : kept[n][m] = list[k]
<1>3. \A n \in 0..Len(list) : Fine(n)
  <2> DEFINE T == {n \in Nat : n <= Len(list) /\ ~Fine(n)}
  <2>1. SUFFICES ASSUME T # {} PROVE FALSE
    OBVIOUS
  <2>2. PICK n \in T : \A k \in T : n <= k
    <3> HIDE DEF T
    <3>1. T \in SUBSET Nat
      BY DEF T
    <3> QED BY <2>1, <3>1, Least
  <2>3. n \in 0..Len(list) /\ ~Fine(n)
    OBVIOUS
  <2>4. CASE n = 0
    <3>1. kept[0] = <<>>
      BY <1>1 DEF Kept1
    <3> QED BY <2>3, <2>4, <3>1
  <2>5. CASE n # 0
    <3>1. n - 1 \in 0..Len(list) /\ Fine(n - 1) /\ n \in 1..Len(list)
      <4>1. /\ n \in 1..Len(list) /\ n - 1 \in Nat /\ n - 1 <= Len(list)
            /\ ~(n <= n - 1) /\ n - 1 \in 0..Len(list)
        BY <2>3, <2>5
      <4>2. n - 1 \notin T
        <5> HIDE DEF T
        <5> QED BY <2>2, <4>1
      <4>3. Fine(n - 1)
        <5> HIDE DEF Fine
        <5> QED BY <4>1, <4>2
      <4> QED BY <4>1, <4>3
    <3>2. list[n] \in Connections
      BY <3>1
    <3>3. kept[n] = IF list[n].id = id THEN kept[n - 1] ELSE Append(kept[n - 1], list[n])
      BY <1>1, <2>3, <2>5 DEF Kept1
    <3>4. CASE list[n].id = id
      BY <2>3, <3>1, <3>3, <3>4
    <3>5. CASE list[n].id # id
      <4>1. kept[n] = Append(kept[n - 1], list[n])
        BY <3>3, <3>5
      <4> DEFINE before == kept[n - 1]
      <4>2. before \in Seq(Connections)
        BY <3>1
      <4> HIDE DEF before
      <4>3. /\ kept[n] \in Seq(Connections) /\ Len(before) \in Nat
            /\ DOMAIN kept[n] = 1..(Len(before) + 1) /\ DOMAIN before = 1..Len(before)
            /\ \A m \in DOMAIN before : kept[n][m] = before[m]
            /\ kept[n][Len(before) + 1] = list[n]
        BY <3>2, <4>1, <4>2 DEF before
      <4>4. ASSUME NEW k \in 1..n, list[k].id # id
            PROVE  \E m \in DOMAIN kept[n] : kept[n][m] = list[k]
        <5>1. CASE k = n
          <6>1. Len(before) + 1 \in DOMAIN kept[n]
            BY <4>3
          <6> QED BY <4>3, <5>1, <6>1
        <5>2. CASE k # n
          <6>1. PICK m \in DOMAIN before : before[m] = list[k]
            BY <3>1, <4>4, <5>2 DEF before
          <6>2. m \in DOMAIN kept[n] /\ kept[n][m] = list[k]
            BY <4>3, <6>1
          <6> QED BY <6>2
        <5> QED BY <5>1, <5>2
      <4> QED BY <2>3, <4>3, <4>4
    <3> QED BY <3>4, <3>5
  <2> QED BY <2>4, <2>5
<1>4. Fine(Len(list))
  BY <1>3
<1>5. ASSUME NEW i \in Ids, Listed(list, i), i # id PROVE Listed(kept[Len(list)], i)
  <2>1. PICK k \in DOMAIN list : list[k].id = i
    BY <1>5 DEF Listed
  <2>2. PICK m \in DOMAIN kept[Len(list)] : kept[Len(list)][m] = list[k]
    BY <1>4, <1>5, <2>1
  <2> QED BY <2>1, <2>2 DEF Listed
<1> QED BY <1>2, <1>4, <1>5

LEMMA SaveKeeps ==
  ASSUME NEW list \in Seq(Connections), NEW profile \in Profiles
  PROVE  /\ Save(list, profile) \in Seq(Connections)
         /\ Listed(Save(list, profile), profile.id)
         /\ \A i \in Ids : Listed(list, i) => Listed(Save(list, profile), i)
<1>1. profile \in Connections /\ Len(list) \in Nat /\ DOMAIN list = 1..Len(list)
  BY ProfilesAssumption
<1>2. CASE \E i \in DOMAIN list : list[i].id = profile.id
  <2> DEFINE new == [i \in DOMAIN list |-> IF list[i].id = profile.id THEN profile ELSE list[i]]
  <2>1. Save(list, profile) = new
    BY <1>2 DEF Save
  <2>2. \A i \in DOMAIN list : new[i] \in Connections /\ new[i].id = list[i].id
    BY <1>1
  <2>3. new \in [1..Len(list) -> Connections]
    BY <1>1, <2>2
  <2>4. DOMAIN new = DOMAIN list /\ new \in Seq(Connections)
    BY <1>1, <2>3
  <2> HIDE DEF new
  <2> QED BY <1>2, <2>1, <2>2, <2>4 DEF Listed
<1>3. CASE ~ \E i \in DOMAIN list : list[i].id = profile.id
  <2> DEFINE new == Append(list, profile)
  <2>1. Save(list, profile) = new
    BY <1>3 DEF Save
  <2>2. /\ new \in Seq(Connections) /\ DOMAIN new = 1..(Len(list) + 1)
        /\ \A i \in DOMAIN list : new[i] = list[i]
        /\ new[Len(list) + 1] = profile
    BY <1>1
  <2> HIDE DEF new
  <2>3. Len(list) + 1 \in DOMAIN new /\ DOMAIN list \subseteq DOMAIN new
    BY <1>1, <2>2
  <2> QED BY <2>1, <2>2, <2>3 DEF Listed
<1> QED BY <1>2, <1>3

LEMMA TouchKeeps ==
  ASSUME NEW list \in Seq(Connections), NEW id
  PROVE  /\ Touch(list, id) \in Seq(Connections)
         /\ \A i \in Ids : Listed(list, i) => Listed(Touch(list, id), i)
<1> DEFINE touched(i) == IF list[i].id = id THEN [list[i] EXCEPT !.used = TRUE] ELSE list[i]
           new == [i \in DOMAIN list |-> touched(i)]
<1>1. Touch(list, id) = new
  BY DEF Touch
<1>2. Len(list) \in Nat /\ DOMAIN list = 1..Len(list) /\ DOMAIN new = DOMAIN list
  OBVIOUS
<1>3. ASSUME NEW i \in DOMAIN list PROVE touched(i) \in Connections /\ touched(i).id = list[i].id
  <2>1. list[i] \in Connections
    BY <1>2
  <2> QED BY <2>1 DEF Connections
<1>4. \A i \in DOMAIN list : new[i] = touched(i)
  OBVIOUS
<1> HIDE DEF touched
<1>5. new \in Seq(Connections)
  BY <1>2, <1>3
<1> HIDE DEF new
<1> QED BY <1>1, <1>2, <1>3, <1>4, <1>5 DEF Listed

-----------------------------------------------------------------------------
(* Whose the passwords are.                                                *)

\* That two were written at once stays so.
LEMMA CrossedStays == ASSUME IInv, [Next]_vars, Crossed PROVE Crossed'
<1>1. PICK o \in mixed : o \in Ops /\ Store(o) = "connections"
  BY DEF Crossed, IInv, TypeOK
<1>2. at[o] # "idle"
  BY DEF IInv, MixedKnown
<1>3. o \in mixed'
  BY DEF Next, Crash, Load, Begin, Encode, Open, Write, WriteFails, Rename, RenameFails,
         KeepPassword, KeystoreFails, vars
<1>4. request'[o] = request[o]
  <2>1. ASSUME NEW p \in Ops, Begin(p) PROVE request'[o] = request[o]
    BY <2>1, <1>2 DEF Begin, IInv, TypeOK
  <2> QED BY <2>1 DEF Next, Crash, Load, Encode, Open, Write, WriteFails, Rename, RenameFails,
                      KeepPassword, KeystoreFails, vars, ops
<1> QED BY <1>1, <1>3, <1>4 DEF Crossed, Store

\* Until then there is one at most.
LEMMA WritesAlone ==
  ASSUME IInv, ~Crossed, NEW o \in Writing("connections")
  PROVE  Writing("connections") = {o} /\ o \notin mixed /\ Taken = payload[o]
<1>1. Writing("connections") \cap mixed = {}
  BY DEF Crossed, Writing
<1> QED BY <1>1, LoneTaken

\* A step that leaves the lists and the keystore, and ends a deletion only to
\* record it as cut off.
LEMMA QuietKeepsOwned ==
  ASSUME Accounted, UNCHANGED <<Shown, OnDisk("connections"), keystore>>, left \subseteq left',
         \A o \in Working("connections") : \A i \in Ids :
            Deletes(o, i) => (o \in Working("connections") /\ Deletes(o, i))' \/ i \in left',
         \A o \in Writing("connections")' :
            o \in Writing("connections") /\ payload'[o] = payload[o],
         \A o \in Working("connections")' : \A i \in Ids :
            Saves(o, i)' =>
               /\ o \in Working("connections") /\ Saves(o, i)
               /\ at'[o] = "password" => at[o] = "password"
  PROVE  Accounted'
<1>1. ListsTyped'
  BY DEF Accounted, ListsTyped
<1>2. ASSUME NEW list, Owned(list)
      PROVE  \A i \in Ids :
               keystore'[i] # NoPassword =>
                 \/ Listed(list, i)
                 \/ \E o \in Working("connections")' : Deletes(o, i)'
                 \/ i \in left'
  BY <1>2 DEF Owned
<1>3. Owned(OnDisk("connections"))' /\ Owned(Shown)'
  BY <1>2 DEF Accounted, ListsOwned, Owned, Listed
<1>4. \A o \in Writing("connections")' : Owned(payload[o])'
  BY <1>2 DEF Accounted, ListsOwned, Owned, Listed
<1>5. SavedListed'
  BY DEF Accounted, SavedListed, Listed
<1> QED BY <1>1, <1>3, <1>4, <1>5 DEF Accounted, ListsOwned

\* Beginning: the lists and who is at work on them.
LEMMA BeginKeepsOwned == ASSUME IInv, Accounted, NEW o \in Ops, Begin(o) PROVE Accounted'
<1>1. PICK r \in Requests :
        /\ memory' = [memory EXCEPT ![StoreOf(r)] = Changed(@, r)]
        /\ request' = [request EXCEPT ![o] = r]
        /\ at' \in {[at EXCEPT ![o] = "done"], [at EXCEPT ![o] = "encode"]}
        /\ r.kind # "touch" => at' = [at EXCEPT ![o] = "encode"]
        /\ left' = IF r.kind = "delete" /\ \E p \in Working(StoreOf(r)) : Saves(p, r.id)
                   THEN left \cup {r.id} ELSE left
  BY DEF Begin, Goto
<1>2. loaded = Stores /\ at[o] = "idle" /\ UNCHANGED <<loaded, file, content, keystore, payload>>
  BY DEF Begin, disk
<1>3. UNCHANGED OnDisk("connections")
  BY <1>2 DEF OnDisk
<1>4. /\ \A p \in Ops : p # o => at'[p] = at[p] /\ request'[p] = request[p]
      /\ at'[o] \in {"done", "encode"} /\ request'[o] = r
      /\ r.kind # "touch" => at'[o] = "encode"
  BY <1>1 DEF IInv, TypeOK
<1>5. /\ \A p \in Ops : p # o => Store(p)' = Store(p)
      /\ \A p \in Ops, i \in Ids : p # o => /\ Deletes(p, i)' <=> Deletes(p, i)
                                            /\ Saves(p, i)' <=> Saves(p, i)
      /\ Store(o)' = StoreOf(r)
  BY <1>4 DEF Store, Deletes, Saves
<1>6. /\ o \notin Working("connections")
      /\ \A p \in Ops : p # o => (p \in Working("connections")' <=> p \in Working("connections"))
  BY <1>2, <1>4, <1>5 DEF Working, Over
<1>7. Writing("connections")' = Writing("connections")
  BY <1>2, <1>4, <1>5, SameWriting
<1>8. left \subseteq left'
  BY <1>1
<1>9. CASE StoreOf(r) = "history"
  <2>1. UNCHANGED Shown
    BY <1>1, <1>2, <1>9 DEF Up, Shown, IInv, TypeOK
  <2>2. o \notin Working("connections")'
    BY <1>5, <1>9 DEF Working
  <2>3. \A p \in Working("connections")' : p \in Ops /\ p # o
    BY <2>2 DEF Working
  <2>4. \A p \in Working("connections") : p \in Ops /\ p # o
    BY <1>6 DEF Working
  <2> QED BY <1>2, <1>3, <1>4, <1>5, <1>6, <1>7, <1>8, <2>1, <2>3, <2>4, QuietKeepsOwned
          DEF Writing
<1>10. CASE StoreOf(r) = "connections"
  <2> DEFINE list == memory["connections"]
             on == OnDisk("connections")
  <2>1. Shown = list /\ Shown' = Changed(list, r) /\ list \in Seq(Connections)
    BY <1>1, <1>2, <1>10 DEF Up, Shown, IInv, TypeOK, Accounted, ListsTyped
  <2>2. /\ Shown' \in Seq(Connections)
        /\ \A i \in Ids : Listed(list, i) => Listed(Shown', i) \/ (r.kind = "delete" /\ r.id = i)
        /\ r.kind = "save" => Listed(Shown', r.profile.id)
    <3>1. CASE r.kind = "save"
      <4>1. r.profile \in Profiles /\ Shown' = Save(list, r.profile)
        BY <2>1, <3>1 DEF Requests, Changed
      <4> QED BY <2>1, <4>1, SaveKeeps
    <3>2. CASE r.kind = "delete"
      <4>1. Shown' = Delete(list, r.id)
        BY <2>1, <3>2 DEF Changed
      <4> QED BY <2>1, <3>2, <4>1, DeleteKeeps
    <3>3. CASE r.kind = "touch"
      <4>1. Shown' = Touch(list, r.id)
        BY <2>1, <3>3 DEF Changed
      <4> QED BY <2>1, <3>3, <4>1, TouchKeeps
    <3> QED BY <1>10, <3>1, <3>2, <3>3 DEF Requests, StoreOf
  <2>3. ListsTyped'
    BY <1>2, <1>3, <1>7, <2>2 DEF Accounted, ListsTyped
  <2>4. \A i \in Ids : (\E p \in Working("connections") : Deletes(p, i)) =>
                          \E p \in Working("connections")' : Deletes(p, i)'
    BY <1>5, <1>6 DEF Working
  <2>5. Owned(on)' /\ \A p \in Writing("connections")' : Owned(payload[p])'
    <3>1. ASSUME NEW l, Owned(l)
          PROVE  \A i \in Ids : keystore[i] # NoPassword =>
                   \/ Listed(l, i)
                   \/ \E p \in Working("connections")' : Deletes(p, i)'
                   \/ i \in left'
      BY <3>1, <2>4, <1>8 DEF Owned
    <3> QED BY <3>1, <1>2, <1>3, <1>7 DEF Accounted, ListsOwned, Owned, Listed
  <2>6. Owned(Shown)'
    <3>1. ASSUME NEW i \in Ids, r.kind = "delete", r.id = i
          PROVE  o \in Working("connections")' /\ Deletes(o, i)'
      BY <3>1, <1>4, <1>5, <1>10 DEF Working, Deletes, Over
    <3>2. ASSUME NEW i \in Ids, keystore[i] # NoPassword
          PROVE  \/ Listed(Shown', i)
                 \/ \E p \in Working("connections")' : Deletes(p, i)'
                 \/ i \in left'
      BY <3>1, <3>2, <1>8, <2>1, <2>2, <2>4 DEF Accounted, ListsOwned, Owned
    <3> QED BY <3>2, <1>2 DEF Owned, Listed
  <2>7. SavedListed'
    <3>1. ASSUME NEW p \in Working("connections"), NEW i \in Ids, Saves(p, i), i \notin left'
          PROVE  Listed(Shown', i)
      <4>1. Listed(list, i)
        BY <3>1, <1>8, <2>1 DEF Accounted, SavedListed
      <4>2. ~(r.kind = "delete" /\ r.id = i)
        BY <3>1, <1>1, <1>10
      <4> QED BY <4>1, <4>2, <2>2
    <3>2. ASSUME NEW i \in Ids, Saves(o, i)' PROVE Listed(Shown', i)
      BY <3>2, <1>4, <2>2 DEF Saves
    <3>3. ASSUME NEW p \in Working("connections")', p # o
          PROVE  p \in Working("connections") /\ at'[p] = at[p]
      BY <3>3, <1>4, <1>6 DEF Working
    <3>4. ASSUME NEW p \in Working("connections")', NEW i \in Ids \ left', Saves(p, i)'
          PROVE  /\ Listed(Shown', i)
                 /\ p \in Writing("connections")' => Listed(payload'[p], i)
                 /\ at'[p] = "password" =>
                      /\ Listed(on', i)
                      /\ \A q \in Writing("connections")' : Listed(payload'[q], i)
      <4>1. CASE p = o
        BY <3>2, <3>4, <4>1, <1>2, <1>4, <1>7 DEF Writing
      <4>2. CASE p # o
        <5>1. p \in Working("connections") /\ at'[p] = at[p] /\ Saves(p, i) /\ i \in Ids \ left
          BY <3>3, <3>4, <4>2, <1>5, <1>8 DEF Working
        <5> QED BY <3>1, <3>4, <5>1, <1>2, <1>3, <1>7 DEF Accounted, SavedListed
      <4> QED BY <4>1, <4>2
    <3> QED BY <3>4 DEF SavedListed, Listed
  <2> QED BY <2>3, <2>5, <2>6, <2>7 DEF Accounted, ListsOwned
<1> QED BY <1>9, <1>10, StoreTypes

\* The list is taken with every connection in it that is being saved.
LEMMA EncodeKeepsOwned ==
  ASSUME IInv, Accounted, NEW o \in Ops, Encode(o), ~Crossed' PROVE Accounted'
<1>1. /\ at[o] = "encode" /\ payload' = [payload EXCEPT ![o] = memory[Store(o)]]
      /\ mixed' = IF Writing(Store(o)) = {} THEN mixed
                  ELSE mixed \cup Writing(Store(o)) \cup {o}
      /\ UNCHANGED <<memory, loaded, file, content, request, keystore, left>>
  BY DEF Encode, disk
<1>2. /\ at'[o] = "open" /\ \A p \in Ops : p # o => at'[p] = at[p] /\ payload'[p] = payload[p]
      /\ payload'[o] = memory[Store(o)]
  BY DEF Encode, Goto, IInv, TypeOK
<1>3. /\ UNCHANGED <<Shown, OnDisk("connections")>>
      /\ \A p \in Ops : Store(p)' = Store(p)
      /\ \A p \in Ops, i \in Ids : /\ Deletes(p, i)' <=> Deletes(p, i)
                                   /\ Saves(p, i)' <=> Saves(p, i)
  BY <1>1 DEF Up, Shown, OnDisk, Store, Deletes, Saves
<1>4. Working("connections")' = Working("connections")
  BY <1>1, <1>2, <1>3 DEF Working, Over
<1>5. CASE Store(o) # "connections"
  <2>1. Writing("connections")' = Writing("connections") /\ o \notin Writing("connections")
    BY <1>1, <1>2, <1>3, <1>5, SameWriting DEF Writing
  <2>2. \A p \in Writing("connections")' : p \in Writing("connections") /\ payload'[p] = payload[p]
    BY <1>2, <2>1 DEF Writing
  <2>3. \A p \in Working("connections")' : at'[p] = "password" => at[p] = "password"
    BY <1>2 DEF Working
  <2>4. \A p \in Working("connections") : p \in Ops
    BY DEF Working
  <2> QED BY <1>1, <1>3, <1>4, <2>2, <2>3, <2>4, QuietKeepsOwned
<1>6. CASE Store(o) = "connections"
  <2>1. o \in Writing("connections")'
    BY <1>2, <1>3, <1>6 DEF Writing
  <2>2. Writing("connections") = {}
    BY <1>1, <1>3, <1>6 DEF Crossed
  <2>3. Writing("connections")' = {o}
    BY <1>2, <1>3, <2>1, <2>2 DEF Writing
  <2>4. payload'[o] = Shown
    BY <1>1, <1>2, <1>6 DEF IInv, Written, Over, Up, Shown
  <2>5. ListsTyped'
    BY <1>3, <2>3, <2>4 DEF Accounted, ListsTyped
  <2>6. Owned(OnDisk("connections"))' /\ Owned(Shown)' /\ Owned(payload[o])'
    BY <1>1, <1>3, <1>4, <2>4 DEF Accounted, ListsOwned, Owned, Listed, Working
  <2>7. SavedListed'
    <3>1. ASSUME NEW p \in Working("connections"), NEW i \in Ids \ left, Saves(p, i)
          PROVE  /\ Listed(Shown, i)
                 /\ at'[p] = "password" => Listed(OnDisk("connections"), i)
      BY <3>1, <1>2 DEF Accounted, SavedListed, Working
    <3> QED BY <3>1, <1>1, <1>3, <1>4, <2>3, <2>4 DEF SavedListed, Listed, Working
  <2> QED BY <2>3, <2>5, <2>6, <2>7 DEF Accounted, ListsOwned
<1> QED BY <1>5, <1>6

LEMMA RenameKeepsOwned ==
  ASSUME IInv, Accounted, ~Crossed, NEW o \in Ops, Rename(o) PROVE Accounted'
<1> DEFINE kind == request[o].kind
<1>1. /\ at[o] = "rename" /\ UNCHANGED <<keystore, request, payload, left>>
      /\ \A p \in Ops : p # o => at'[p] = at[p]
      /\ at'[o] = IF kind \in {"save", "delete"} THEN "password" ELSE "done"
  BY DEF Rename, Goto, IInv, TypeOK
<1>2. /\ \A p \in Ops : Store(p)' = Store(p)
      /\ \A p \in Ops, i \in Ids : /\ Deletes(p, i)' <=> Deletes(p, i)
                                   /\ Saves(p, i)' <=> Saves(p, i)
  BY <1>1 DEF Store, Deletes, Saves
<1>3. Writing("connections") \cap mixed = {}
  BY DEF Crossed, Writing
<1>4. ASSUME NEW p \in Working("connections"), NEW i \in Ids, Deletes(p, i)
      PROVE  p \in Working("connections")'
  BY <1>1, <1>2, <1>4 DEF Working, Deletes, Over
<1>5. \A p \in Working("connections")' : p \in Working("connections")
  BY <1>1, <1>2 DEF Working, Over
<1>6. CASE Store(o) # "connections"
  <2>1. /\ UNCHANGED <<Shown, OnDisk("connections")>>
        /\ Writing("connections")' = Writing("connections")
    BY <1>3, <1>6, RenameReplaces
  <2>2. \A p \in Working("connections") : p \in Ops /\ p # o
    BY <1>6 DEF Working
  <2> QED BY <1>1, <1>2, <1>4, <1>5, <2>1, <2>2, QuietKeepsOwned DEF Writing
<1>7. CASE Store(o) = "connections"
  <2>1. /\ UNCHANGED Shown /\ OnDisk("connections")' = payload[o]
        /\ Writing("connections") = {o} /\ Writing("connections")' = {}
    BY <1>3, <1>7, RenameReplaces
  <2>2. ListsTyped'
    BY <2>1 DEF Accounted, ListsTyped
  <2>3. ASSUME NEW list, Owned(list)
        PROVE  \A i \in Ids :
                 keystore'[i] # NoPassword =>
                   \/ Listed(list, i)
                   \/ \E p \in Working("connections")' : Deletes(p, i)'
                   \/ i \in left'
    <3>1. \A p \in Working("connections") : p \in Ops
      BY DEF Working
    <3> QED BY <2>3, <3>1, <1>1, <1>2, <1>4 DEF Owned
  <2>4. Owned(OnDisk("connections"))' /\ Owned(Shown)'
    BY <2>1, <2>3 DEF Accounted, ListsOwned, Owned, Listed
  <2>5. SavedListed'
    <3>1. ASSUME NEW p \in Working("connections"), NEW i \in Ids \ left, Saves(p, i)
          PROVE  /\ Listed(Shown, i)
                 /\ at'[p] = "password" => Listed(payload[o], i)
      BY <3>1, <1>1, <2>1 DEF Accounted, SavedListed, Working
    <3> QED BY <3>1, <1>1, <1>2, <1>5, <2>1 DEF SavedListed, Listed, Working
  <2> QED BY <2>1, <2>2, <2>4, <2>5 DEF Accounted, ListsOwned
<1> QED BY <1>6, <1>7

LEMMA KeepPasswordKeepsOwned ==
  ASSUME IInv, OwnedInv, Accounted, NEW o \in Ops, KeepPassword(o) PROVE Accounted'
<1>1. at[o] = "password" /\ UNCHANGED <<memory, loaded, file, content, request, payload, left>>
  BY DEF KeepPassword, disk
<1>2. /\ \A p \in Ops : p # o => at'[p] = at[p]
      /\ at'[o] = "done"
  BY DEF KeepPassword, Goto, IInv, TypeOK
<1>3. UNCHANGED <<Shown, OnDisk("connections")>>
  BY <1>1 DEF Up, Shown, OnDisk
<1>4. /\ \A p \in Ops : Store(p)' = Store(p)
      /\ \A p \in Ops, i \in Ids : /\ Deletes(p, i)' <=> Deletes(p, i)
                                   /\ Saves(p, i)' <=> Saves(p, i)
  BY <1>1 DEF Store, Deletes, Saves
<1>5. /\ Writing("connections")' = Writing("connections")
      /\ \A p \in Ops : p # o => (p \in Working("connections")' <=> p \in Working("connections"))
      /\ o \notin Working("connections")'
  BY <1>1, <1>2, <1>4 DEF Writing, Working, Over
<1>6. ASSUME NEW i \in Ids, keystore'[i] # NoPassword
      PROVE  /\ ~Deletes(o, i)
             /\ \/ keystore[i] # NoPassword
                \/ i \in left
                \/ /\ Listed(Shown, i) /\ Listed(OnDisk("connections"), i)
                   /\ \A p \in Writing("connections") : Listed(payload[p], i)
  <2>1. CASE request[o].kind = "delete"
    <3>1. keystore' = [keystore EXCEPT ![request[o].id] = NoPassword]
      BY <2>1 DEF KeepPassword
    <3> QED BY <1>6, <2>1, <3>1 DEF OwnedInv, Deletes
  <2>2. CASE request[o].kind = "save"
    <3>1. keystore' = [keystore EXCEPT ![request[o].profile.id] = request[o].password]
          \/ keystore' = keystore
      BY <2>2 DEF KeepPassword
    <3>2. o \in Working("connections")
      BY <1>1, <2>2 DEF Working, Store, StoreOf, Over
    <3>3. CASE i = request[o].profile.id
      BY <1>1, <2>2, <3>2, <3>3 DEF Accounted, SavedListed, Saves, Deletes
    <3>4. CASE i # request[o].profile.id
      BY <1>6, <2>2, <3>1, <3>4 DEF OwnedInv, Deletes
    <3> QED BY <3>3, <3>4
  <2>3. CASE request[o].kind \notin {"save", "delete"}
    <3>1. keystore' = keystore
      BY <2>3 DEF KeepPassword
    <3> QED BY <1>6, <2>3, <3>1 DEF Deletes
  <2> QED BY <2>1, <2>2, <2>3
<1>7. ASSUME NEW list, Owned(list),
             \A i \in Ids : /\ Listed(Shown, i) /\ Listed(OnDisk("connections"), i)
                            /\ \A p \in Writing("connections") : Listed(payload[p], i)
                            => Listed(list, i)
      PROVE  \A i \in Ids :
               keystore'[i] # NoPassword =>
                 \/ Listed(list, i)
                 \/ \E p \in Working("connections")' : Deletes(p, i)'
                 \/ i \in left'
  <2>1. ASSUME NEW i \in Ids, NEW p \in Working("connections"), Deletes(p, i), ~Deletes(o, i)
        PROVE  p \in Working("connections")' /\ Deletes(p, i)'
    BY <2>1, <1>4, <1>5 DEF Working
  <2> QED BY <1>1, <1>6, <1>7, <2>1 DEF Owned
<1>8. Owned(OnDisk("connections"))' /\ Owned(Shown)'
  BY <1>3, <1>7 DEF Accounted, ListsOwned, Owned, Listed
<1>9. \A p \in Writing("connections")' : Owned(payload[p])'
  BY <1>1, <1>5, <1>7 DEF Accounted, ListsOwned, Owned, Listed
<1>10. SavedListed'
  <2>1. ASSUME NEW p \in Working("connections")', NEW i \in Ids
        PROVE  p \in Working("connections") /\ at'[p] = at[p] /\ (Saves(p, i)' <=> Saves(p, i))
    BY <2>1, <1>2, <1>4, <1>5 DEF Working
  <2> QED BY <2>1, <1>1, <1>3, <1>5 DEF Accounted, SavedListed, Listed
<1>11. ListsTyped'
  BY <1>1, <1>3, <1>5 DEF Accounted, ListsTyped
<1> QED BY <1>8, <1>9, <1>10, <1>11 DEF Accounted, ListsOwned

\* The app comes back with the list in the file; what it was deleting is cut
\* off.
LEMMA CrashKeepsOwned == ASSUME IInv, Accounted, Crash PROVE Accounted'
<1>1. /\ \A o \in Working("connections") : \A i \in Ids : Deletes(o, i) => i \in left'
      /\ left \subseteq left'
      /\ UNCHANGED keystore
  BY DEF Crash, Deletes
<1>2. UNCHANGED OnDisk("connections") /\ Shown' = OnDisk("connections")
  BY DEF Crash, disk, OnDisk, Up, Shown
<1>3. \A o \in Ops : at'[o] \in Over
  BY StoreTypes DEF Crash, IInv, TypeOK, Working, Places, Over, Store
<1>4. Writing("connections")' = {} /\ Working("connections")' = {}
  BY <1>3 DEF Writing, Working, Over
<1>5. \A i \in Ids : keystore'[i] # NoPassword => Listed(OnDisk("connections"), i) \/ i \in left'
  BY <1>1 DEF Accounted, Owned
<1>6. Owned(OnDisk("connections"))' /\ Owned(Shown)'
  BY <1>2, <1>5 DEF Owned, Listed
<1>7. SavedListed' /\ ListsTyped'
  BY <1>2, <1>4 DEF SavedListed, Accounted, ListsTyped
<1> QED BY <1>4, <1>6, <1>7 DEF Accounted, ListsOwned

\* Every other step leaves the lists and the keystore.
LEMMA OthersKeepOwned ==
  ASSUME IInv, Accounted, ~Crossed, NEW o \in Ops,
         Open(o) \/ Write(o) \/ WriteFails(o) \/ RenameFails(o) \/ KeystoreFails(o)
  PROVE  Accounted'
<1>1. UNCHANGED <<Shown, OnDisk("connections")>>
  <2>1. CASE Open(o) \/ Write(o) \/ WriteFails(o)
    BY <2>1, WritesBeside DEF Crossed
  <2>2. CASE RenameFails(o) \/ KeystoreFails(o)
    BY <2>2 DEF RenameFails, KeystoreFails, disk, Up, Shown, OnDisk
  <2> QED BY <2>1, <2>2
<1>2. /\ UNCHANGED <<keystore, request, payload>>
      /\ \A p \in Ops : p # o => at'[p] = at[p]
      /\ at[o] \notin Over /\ at'[o] # "password"
      /\ at'[o] \in {"open", "write", "rename"} => at[o] \in {"open", "write", "rename"}
  BY DEF Open, Write, WriteFails, RenameFails, KeystoreFails, Fail, Goto, Over, IInv, TypeOK
<1>3. \/ UNCHANGED left /\ at'[o] \notin Over
      \/ left' = IF request[o].kind = "delete" THEN left \cup {request[o].id} ELSE left
  BY DEF Open, Write, WriteFails, RenameFails, KeystoreFails, Fail, Goto, Over, IInv, TypeOK
<1>4. /\ \A p \in Ops : Store(p)' = Store(p)
      /\ \A p \in Ops, i \in Ids : /\ Deletes(p, i)' <=> Deletes(p, i)
                                   /\ Saves(p, i)' <=> Saves(p, i)
  BY <1>2 DEF Store, Deletes, Saves
<1>5. \A i \in Ids : Deletes(o, i) => at'[o] \notin Over \/ i \in left'
  BY <1>3 DEF Deletes
<1>6. left \subseteq left'
  BY <1>3
<1>7. \A p \in Working("connections") : \A i \in Ids :
        Deletes(p, i) => (p \in Working("connections") /\ Deletes(p, i))' \/ i \in left'
  BY <1>2, <1>4, <1>5 DEF Working
<1>8. \A p \in Writing("connections")' : p \in Writing("connections") /\ payload'[p] = payload[p]
  BY <1>2, <1>4 DEF Writing
<1>9. \A p \in Working("connections")' : \A i \in Ids :
        Saves(p, i)' => /\ p \in Working("connections") /\ Saves(p, i)
                        /\ at'[p] = "password" => at[p] = "password"
  BY <1>2, <1>4 DEF Working
<1> QED BY <1>1, <1>2, <1>6, <1>7, <1>8, <1>9, QuietKeepsOwned

LEMMA LoadKeepsOwned == ASSUME IInv, Accounted, NEW s \in Stores, Load(s) PROVE Accounted'
<1>1. UNCHANGED <<Shown, OnDisk("connections")>>
  BY LoadShows DEF Book!ComeBack
<1>2. UNCHANGED <<keystore, request, at, payload, left>>
  BY DEF Load, ops
<1>3. /\ Writing("connections")' = Writing("connections")
      /\ Working("connections")' = Working("connections")
      /\ \A p, i : /\ Deletes(p, i)' <=> Deletes(p, i)
                   /\ Saves(p, i)' <=> Saves(p, i)
  BY <1>2 DEF Writing, Working, Store, Deletes, Saves
<1> QED BY <1>1, <1>2, <1>3, QuietKeepsOwned

LEMMA StepKeepsOwned == ASSUME IInv, OwnedInv, [Next]_vars PROVE OwnedInv'
<1>1. DOMAIN keystore' = Ids
  BY DEF OwnedInv, Next, Crash, Load, Begin, Encode, Open, Write, WriteFails, Rename,
         RenameFails, KeepPassword, KeystoreFails, vars
<1>2. ASSUME ~Crossed' PROVE Accounted'
  <2>1. ~Crossed /\ Accounted
    BY <1>2, CrossedStays DEF OwnedInv
  <2>2. CASE UNCHANGED vars
    BY <2>1, <2>2 DEF vars, disk, ops, Accounted, ListsTyped, ListsOwned, SavedListed, Owned,
              Deletes, Saves, Listed, Up, Shown, OnDisk, Writing, Working, Store
  <2> QED BY <1>2, <2>1, <2>2, BeginKeepsOwned, EncodeKeepsOwned, RenameKeepsOwned,
             KeepPasswordKeepsOwned, CrashKeepsOwned, OthersKeepOwned, LoadKeepsOwned DEF Next
<1> QED BY <1>1, <1>2 DEF OwnedInv

LEMMA InitOwned == Init => OwnedInv
  BY DEF Init, OwnedInv, Accounted, ListsTyped, ListsOwned, Owned, SavedListed, Up, Shown, OnDisk,
         Writing, Working, Over

\* What is listed, what is saved and whose passwords are kept, through every
\* operation, failure and crash, until two edits are written at once.
THEOREM OwnedKept == Spec => []OwnedInv
<1>1. IInv /\ OwnedInv /\ [Next]_vars => OwnedInv'
  BY StepKeepsOwned
<1> QED BY <1>1, InitOwned, Inv, PTL DEF Spec

\* No password is kept for a connection nobody can see (save and delete of the
\* connection store, which write the list first and the keystore after), but
\* where its deletion is under way, was cut off or ran into a save of it, and
\* until two edits were written at once.
THEOREM NoPasswordLeft == Spec => []PasswordsOwned
<1>1. OwnedInv => PasswordsOwned
  BY DEF OwnedInv, Accounted, PasswordsOwned
<1> QED BY <1>1, OwnedKept, PTL
=============================================================================
