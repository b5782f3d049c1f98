-------------------------- MODULE ConnectionStore ---------------------------
(***************************************************************************)
(* The app's files (app/lib/data/connection_store.dart): the saved         *)
(* connections, whose passwords are in the platform's keystore, and the    *)
(* history of the statements run.  An operation changes the list in memory *)
(* at once and then writes it in steps the others can come between: it     *)
(* writes a temporary file and renames it over the old one.  Nothing keeps *)
(* two of them apart: they share the temporary file.  The app may be       *)
(* killed between any two steps, and a write may fail.                     *)
(*                                                                         *)
(* A file is named by the operation that created it, so that a file stays  *)
(* the same file when it is renamed or written through an open handle.     *)
(***************************************************************************)
EXTENDS Integers, FiniteSets, Sequences, SequencesExt

CONSTANTS
  NumOps,      \* bound: the operations of a behaviour
  MaxCrashes,  \* bound: how often the app is killed
  Profiles,    \* what is saved: records with an id and a time of last use
  Passwords,   \* what is typed as one
  Statements,  \* what is run
  Limit        \* entries of the history: 200 in the code

ASSUME OpsAssumption == NumOps \in Nat /\ MaxCrashes \in Nat

Stores == {"connections", "history"}
Ops    == 1..NumOps
Ids    == {p.id : p \in Profiles}

Connections == [id : Ids, used : BOOLEAN]

ASSUME ProfilesAssumption == Profiles \subseteq Connections

None       == 0     \* no file
NoPassword == ""    \* an empty password is none: it is deleted
Kept       == "kept"   \* the password is left as it is: a null in the code

Whole(list) == [whole |-> TRUE, list |-> list]
Torn        == [whole |-> FALSE, list |-> <<>>]

VARIABLES
  memory,    \* of each store, its list: _profiles, _entries
  loaded,    \* the stores that are loaded
  file,      \* of each store, the file under its name, or None
  temp,      \* of each store, the file under its name with .tmp, or None
  content,   \* of each file
  keystore,  \* of each id, the password kept
  at,        \* of each operation, how far it is
  request,   \* and what it was called with,
  payload,   \* the list it writes,
  handle,    \* the file it writes to
  crashes,
  mixed,     \* history: the operations that wrote while another did, and
  left       \* the ids whose deletion did not come to its end, or began
             \* before a save of the same connection had come to its own

disk == <<file, temp, content>>
ops  == <<at, request, payload, handle>>
vars == <<memory, loaded, disk, keystore, ops, crashes, mixed, left>>

-----------------------------------------------------------------------------
(* The lists.                                                              *)

Save(list, profile) ==
  IF \E i \in DOMAIN list : list[i].id = profile.id
  THEN [i \in DOMAIN list |-> IF list[i].id = profile.id THEN profile ELSE list[i]]
  ELSE Append(list, profile)

\* The profiles but those of the id, in their order.
Delete(list, id) ==
  LET kept[n \in 0..Len(list)] ==
        IF n = 0 THEN <<>>
        ELSE IF list[n].id = id THEN kept[n - 1] ELSE Append(kept[n - 1], list[n])
  IN  kept[Len(list)]

Touch(list, id) ==
  [i \in DOMAIN list |-> IF list[i].id = id THEN [list[i] EXCEPT !.used = TRUE] ELSE list[i]]

\* The statement comes first, once, and the oldest go.
AddEntry(list, sql) ==
  LET all == <<sql>> \o SelectSeq(list, LAMBDA e : e # sql)
  IN  SubSeq(all, 1, IF Len(all) < Limit THEN Len(all) ELSE Limit)

-----------------------------------------------------------------------------
Requests ==
  [kind : {"save"}, profile : Profiles, password : Passwords \cup {NoPassword, Kept}]
  \cup [kind : {"delete", "touch"}, id : Ids]
  \cup [kind : {"add"}, sql : Statements]
  \cup [kind : {"clear"}]

StoreOf(r) == IF r.kind \in {"add", "clear"} THEN "history" ELSE "connections"

Changed(list, r) ==
  CASE r.kind = "save"   -> Save(list, r.profile)
    [] r.kind = "delete" -> Delete(list, r.id)
    [] r.kind = "touch"  -> Touch(list, r.id)
    [] r.kind = "add"    -> AddEntry(list, r.sql)
    [] r.kind = "clear"  -> <<>>

NoRequest == [kind |-> "none"]

Over == {"idle", "done", "failed", "lost"}

Init ==
  /\ memory = [s \in Stores |-> <<>>]
  /\ loaded = {}
  /\ file = [s \in Stores |-> None]
  /\ temp = [s \in Stores |-> None]
  /\ content = [o \in Ops |-> Torn]
  /\ keystore = [i \in Ids |-> NoPassword]
  /\ at = [o \in Ops |-> "idle"]
  /\ request = [o \in Ops |-> NoRequest]
  /\ payload = [o \in Ops |-> <<>>]
  /\ handle = [o \in Ops |-> None]
  /\ crashes = 0
  /\ mixed = {}
  /\ left = {}

Goto(o, place) == at' = [at EXCEPT ![o] = place]
Store(o)       == StoreOf(request[o])
Working(s)     == {o \in Ops : at[o] \notin Over /\ Store(o) = s}

\* Those that have their list and are on their way to the disk with it.
Writing(s) == {o \in Ops : at[o] \in {"open", "write", "rename"} /\ Store(o) = s}

\* What an operation was called to do to a connection.
Saves(o, i)   == request[o].kind = "save" /\ request[o].profile.id = i
Deletes(o, i) == request[o].kind = "delete" /\ request[o].id = i

\* Mistake: a temporary file left behind spoils the loading.
LoadUnlessTemp(s) ==
  /\ s \notin loaded
  /\ loaded' = loaded \cup {s}
  /\ memory' = [memory EXCEPT ![s] = IF file[s] = None \/ temp[s] # None THEN <<>>
                                     ELSE content[file[s]].list]
  /\ UNCHANGED <<disk, keystore, ops, crashes, mixed, left>>

\* load: a file that cannot be read is an empty list.
Load(s) ==
  /\ s \notin loaded
  /\ loaded' = loaded \cup {s}
  /\ memory' = [memory EXCEPT ![s] = IF file[s] = None THEN <<>> ELSE content[file[s]].list]
  /\ UNCHANGED <<disk, keystore, ops, crashes, mixed, left>>

\* An operation is called once everything is loaded: AppState.init is awaited.
\* What it does before its first await.
Begin(o) ==
  /\ loaded = Stores
  /\ at[o] = "idle" /\ \A p \in 1..(o - 1) : at[p] # "idle"
  /\ \E r \in Requests :
       LET s == StoreOf(r)
           touchesNothing == r.kind = "touch" /\ \A i \in DOMAIN memory[s] : memory[s][i].id # r.id
       IN  /\ memory' = [memory EXCEPT ![s] = Changed(@, r)]
           /\ request' = [request EXCEPT ![o] = r]
           /\ Goto(o, IF touchesNothing THEN "done" ELSE "encode")
           /\ left' = IF r.kind = "delete" /\ \E p \in Working(s) : Saves(p, r.id)
                      THEN left \cup {r.id} ELSE left
  /\ UNCHANGED <<loaded, disk, keystore, payload, handle, crashes, mixed>>

\* _persist, from the directory on: the list as it is by then.
Encode(o) ==
  /\ at[o] = "encode"
  /\ payload' = [payload EXCEPT ![o] = memory[Store(o)]]
  /\ LET others == Writing(Store(o))
     IN  mixed' = IF others = {} THEN mixed ELSE mixed \cup others \cup {o}
  /\ Goto(o, "open")
  /\ UNCHANGED <<memory, loaded, disk, keystore, request, handle, crashes, left>>

\* Mistake: the file is written in place.
OpenInPlace(o) ==
  /\ at[o] = "open"
  /\ LET s == Store(o)
         f == IF file[s] = None THEN o ELSE file[s]
     IN  /\ temp' = [temp EXCEPT ![s] = f]
         /\ content' = [content EXCEPT ![f] = Torn]
         /\ handle' = [handle EXCEPT ![o] = f]
  /\ Goto(o, "write")
  /\ UNCHANGED <<memory, loaded, file, keystore, request, payload, crashes, mixed, left>>

\* writeAsString opens the temporary file, and empties it if there is one,
Open(o) ==
  /\ at[o] = "open"
  /\ LET s == Store(o)
         f == IF temp[s] = None THEN o ELSE temp[s]
     IN  /\ temp' = [temp EXCEPT ![s] = f]
         /\ content' = [content EXCEPT ![f] = Torn]
         /\ handle' = [handle EXCEPT ![o] = f]
  /\ Goto(o, "write")
  /\ UNCHANGED <<memory, loaded, file, keystore, request, payload, crashes, mixed, left>>

\* and writes it from its start: over what another handle wrote meanwhile, of
\* which the end may stay.
Write(o) ==
  /\ at[o] = "write"
  /\ LET f == handle[o]
     IN  \E written \in {Whole(payload[o])} \cup (IF content[f] = Torn THEN {} ELSE {Torn}) :
            content' = [content EXCEPT ![f] = written]
  /\ Goto(o, "rename")
  /\ UNCHANGED <<memory, loaded, file, temp, keystore, request, payload, handle, crashes, mixed, left>>

\* The history swallows what fails; a deletion that fails leaves a password.
Fail(o) ==
  /\ Goto(o, IF Store(o) = "history" THEN "done" ELSE "failed")
  /\ left' = IF request[o].kind = "delete" THEN left \cup {request[o].id} ELSE left

WriteFails(o) ==
  /\ at[o] = "write"
  /\ content' = [content EXCEPT ![handle[o]] = Torn]
  /\ Fail(o)
  /\ UNCHANGED <<memory, loaded, file, temp, keystore, request, payload, handle, crashes, mixed>>

Rename(o) ==
  /\ at[o] = "rename"
  /\ temp[Store(o)] # None
  /\ file' = [file EXCEPT ![Store(o)] = temp[Store(o)]]
  /\ temp' = [temp EXCEPT ![Store(o)] = None]
  /\ Goto(o, IF request[o].kind \in {"save", "delete"} THEN "password" ELSE "done")
  /\ UNCHANGED <<memory, loaded, content, keystore, request, payload, handle, crashes, mixed, left>>

\* Another operation has renamed the temporary file away, or the file system
\* refuses.
RenameFails(o) ==
  /\ at[o] = "rename"
  /\ Fail(o)
  /\ UNCHANGED <<memory, loaded, disk, keystore, request, payload, handle, crashes, mixed>>

\* Mistake: deleting a connection leaves its password.
KeepPasswordsOfTheDeleted(o) ==
  /\ at[o] = "password"
  /\ LET r == request[o]
     IN  keystore' = IF r.kind = "save" /\ r.password # Kept
                     THEN [keystore EXCEPT ![r.profile.id] = r.password]
                     ELSE keystore
  /\ Goto(o, "done")
  /\ UNCHANGED <<memory, loaded, disk, request, payload, handle, crashes, mixed, left>>

KeepPassword(o) ==
  /\ at[o] = "password"
  /\ LET r == request[o]
     IN  keystore' = CASE r.kind = "delete" -> [keystore EXCEPT ![r.id] = NoPassword]
                       [] r.kind = "save" /\ r.password # Kept ->
                            [keystore EXCEPT ![r.profile.id] = r.password]
                       [] OTHER -> keystore
  /\ Goto(o, "done")
  /\ UNCHANGED <<memory, loaded, disk, request, payload, handle, crashes, mixed, left>>

KeystoreFails(o) ==
  /\ at[o] = "password"
  /\ Fail(o)
  /\ UNCHANGED <<memory, loaded, disk, keystore, request, payload, handle, crashes, mixed>>

\* The app is killed: what is on the disk and in the keystore stays.
Crash ==
  /\ crashes < MaxCrashes
  /\ crashes' = crashes + 1
  /\ loaded' = {}
  /\ memory' = [s \in Stores |-> <<>>]
  /\ LET cut == Working("connections") \cup Working("history")
     IN  /\ at' = [o \in Ops |-> IF o \in cut THEN "lost" ELSE at[o]]
         /\ left' = left \cup {request[o].id :
                                 o \in {c \in cut : request[c].kind = "delete"}}
  /\ UNCHANGED <<disk, keystore, request, payload, handle, mixed>>

Next ==
  \/ Crash
  \/ \E s \in Stores : Load(s)
  \/ \E o \in Ops : \/ Begin(o) \/ Encode(o) \/ Open(o) \/ Write(o) \/ WriteFails(o)
                    \/ Rename(o) \/ RenameFails(o) \/ KeepPassword(o) \/ KeystoreFails(o)

Spec == Init /\ [][Next]_vars

-----------------------------------------------------------------------------
\* _persist: "A rename is atomic, so a crash or a battery death mid-write
\* cannot leave a half-written file where the connection list used to be."
\* It cannot, whenever the app is killed and whatever fails: a file is whole
\* unless one of those that wrote it did so while another was writing, which
\* nothing in the code prevents.
FileIsWhole ==
  \A s \in Stores :
     file[s] # None =>
       content[file[s]].whole \/ \E o \in mixed : handle[o] = file[s]

\* The comment taken at its word: two operations that write at once refute it.
FileAlwaysWhole == \A s \in Stores : file[s] # None => content[file[s]].whole

\* Why: one that writes alone has the temporary file for itself.
Places == Over \cup {"encode", "open", "write", "rename", "password"}

TypeOK ==
  /\ DOMAIN memory = Stores
  /\ loaded \subseteq Stores
  /\ file \in [Stores -> Ops \cup {None}]
  /\ temp \in [Stores -> Ops \cup {None}]
  /\ DOMAIN content = Ops
  /\ at \in [Ops -> Places]
  /\ request \in [Ops -> Requests \cup {NoRequest}]
  /\ DOMAIN payload = Ops
  /\ handle \in [Ops -> Ops \cup {None}]
  /\ mixed \subseteq Ops

\* A file belongs to the store whose operation created it.
Belongs(f, s) == at[f] \notin {"idle", "encode", "open"} /\ Store(f) = s

FilesApart ==
  /\ \A s \in Stores :
        /\ file[s] # None => Belongs(file[s], s) /\ file[s] # temp[s]
        /\ temp[s] # None => Belongs(temp[s], s)
  /\ \A o \in Ops :
        /\ at[o] \in {"idle", "encode", "open"} => handle[o] = None
        /\ at[o] \in {"write", "rename"} => handle[o] # None /\ Belongs(handle[o], Store(o))

\* Two that write at once are in the history, and whoever is has written.
MixedKnown ==
  /\ \A o, p \in Ops : \A s \in Stores :
        o \in Writing(s) /\ p \in Writing(s) /\ o # p => o \in mixed
  /\ \A o \in mixed : at[o] \notin {"idle", "encode"}

Written ==
  \A o \in Ops :
     /\ at[o] \notin Over => loaded = Stores
     /\ o \notin mixed /\ at[o] \in {"write", "rename"} => handle[o] = temp[Store(o)]
     /\ o \notin mixed /\ at[o] = "write" => content[handle[o]] = Torn
     /\ o \notin mixed /\ at[o] = "rename" => content[handle[o]] = Whole(payload[o])

\* Whoever is about to rename has written the temporary file, or one that
\* wrote at the same time has.
TempShared ==
  \A o \in Ops :
     at[o] \in {"write", "rename"} /\ temp[Store(o)] # None =>
       \/ handle[o] = temp[Store(o)]
       \/ \E p \in mixed : handle[p] = temp[Store(o)]

IInv == TypeOK /\ FilesApart /\ MixedKnown /\ Written /\ TempShared /\ FileIsWhole

\* The list of a store as the file has it.
OnDisk(s) == IF file[s] = None THEN <<>> ELSE content[file[s]].list

\* The list the app shows, or would show once it has loaded it.
Up    == "connections" \in loaded
Shown == IF Up THEN memory["connections"] ELSE OnDisk("connections")

\* The list on its way to the file.
Taken ==
  IF Writing("connections") = {} THEN OnDisk("connections")
  ELSE payload[CHOOSE o \in Writing("connections") : TRUE]

\* The store keeps what its comments promise: the file has a list the app
\* showed, never another nor an older one than it had, and the app comes back
\* with that list, whenever it is killed and whatever fails.  What two edits
\* written at once leave in the file is not promised; what comes after it is.
Book == INSTANCE DurableList WITH
          up <- Up, shown <- Shown, taken <- Taken, kept <- OnDisk("connections"),
          muddled <- Writing("connections") \cap mixed # {}, Profiles <- Profiles
KeepsTheBook == Book!Spec

\* A connection is in a list.
Listed(list, i) == \E k \in DOMAIN list : list[k].id = i

\* Every password is of a connection in the list, but while its deletion is
\* under way or where that was cut off or ran into a save of the connection.
Owned(list) ==
  \A i \in Ids :
     keystore[i] # NoPassword =>
       \/ Listed(list, i)
       \/ \E o \in Working("connections") : Deletes(o, i)
       \/ i \in left

\* Two edits of the connections have been written at once.
Crossed == \E o \in mixed : Store(o) = "connections"

\* delete: "otherwise the keystore accumulates passwords for connections that
\* no longer exist and nobody can see."  No password is kept for a connection
\* that is not in the file, whenever the app is killed and whatever fails, but
\* for the deletions Owned names, and until two edits were written at once.
PasswordsOwned == Crossed \/ Owned(OnDisk("connections"))

\* Why: the same holds of the list that is shown and of the one on its way to
\* the file; and a password is kept once its connection is listed in all three.
ListsTyped ==
  /\ Shown \in Seq(Connections)
  /\ OnDisk("connections") \in Seq(Connections)
  /\ \A o \in Writing("connections") : payload[o] \in Seq(Connections)
ListsOwned ==
  /\ Owned(Shown)
  /\ \A o \in Writing("connections") : Owned(payload[o])
SavedListed ==
  \A o \in Working("connections") : \A i \in Ids \ left :
     Saves(o, i) =>
       /\ Listed(Shown, i)
       /\ o \in Writing("connections") => Listed(payload[o], i)
       /\ at[o] = "password" =>
            /\ Listed(OnDisk("connections"), i)
            /\ \A p \in Writing("connections") : Listed(payload[p], i)

\* What is inductive in addition to IInv.
Accounted == ListsTyped /\ Owned(OnDisk("connections")) /\ ListsOwned /\ SavedListed
OwnedInv  == DOMAIN keystore = Ids /\ (Crossed \/ Accounted)
=============================================================================
