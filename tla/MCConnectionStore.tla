------------------------- MODULE MCConnectionStore --------------------------
(***************************************************************************)
(* One connection, or two, for the runs of ConnectionStore.                *)
(***************************************************************************)
EXTENDS ConnectionStore

MCProfile  == [id : {"c1"}, used : {FALSE}]
MCProfiles == [id : {"c1", "c2"}, used : {FALSE}]

\* Of an operation that is over only its store is read again, and what it wrote
\* only until it is renamed: states that differ in the rest alone are the same.
MCView ==
  <<memory, loaded, disk, keystore, at, handle, crashes, mixed, left,
    [o \in Ops |-> IF at[o] \in Over THEN Store(o) ELSE request[o]],
    [o \in Ops |-> IF o \in Writing(Store(o)) THEN payload[o] ELSE <<>>]>>
=============================================================================
