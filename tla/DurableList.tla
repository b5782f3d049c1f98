---------------------------- MODULE DurableList -----------------------------
(***************************************************************************)
(* What the connection store promises its caller: a list that is edited    *)
(* one profile at a time; the list as it is at some moment is taken and    *)
(* then kept, unless that fails; and what is kept last is what the app     *)
(* comes back with.                                                        *)
(***************************************************************************)
EXTENDS Integers, Sequences

CONSTANT Profiles   \* what may be saved: records with an id and whether it was used

VARIABLES
  up,       \* whether the app is
  shown,    \* the list it shows, or will when it is up
  taken,    \* the list on its way to be kept
  kept,     \* the list it comes back with
  muddled   \* two lists are on their way at once: nothing is promised

Saved(list, profile) ==
  IF \E i \in DOMAIN list : list[i].id = profile.id
  THEN [i \in DOMAIN list |-> IF list[i].id = profile.id THEN profile ELSE list[i]]
  ELSE Append(list, profile)

Without(list, id) ==
  LET rest[n \in 0..Len(list)] ==
        IF n = 0 THEN <<>>
        ELSE IF list[n].id = id THEN rest[n - 1] ELSE Append(rest[n - 1], list[n])
  IN  rest[Len(list)]

Used(list, id) ==
  [i \in DOMAIN list |-> IF list[i].id = id THEN [list[i] EXCEPT !.used = TRUE] ELSE list[i]]

Init == up = FALSE /\ shown = <<>> /\ taken = <<>> /\ kept = <<>> /\ muddled = FALSE

Edit ==
  /\ up
  /\ \E profile \in Profiles :
       shown' \in {Saved(shown, profile), Without(shown, profile.id), Used(shown, profile.id)}
  /\ UNCHANGED <<up, taken, kept>>

Take == up /\ taken' = shown /\ UNCHANGED <<up, shown, kept>>

Drop == taken' = kept /\ UNCHANGED <<up, shown, kept>>

Keep == kept' = taken /\ UNCHANGED <<up, shown, taken>>

\* The app is gone, and all it has is what was kept.
Stop == ~up' /\ shown' = kept /\ taken' = kept /\ UNCHANGED kept

ComeBack == ~up /\ up' /\ UNCHANGED <<shown, taken, kept>>

Next == muddled \/ muddled' \/ Edit \/ Take \/ Drop \/ Keep \/ Stop \/ ComeBack

Spec == Init /\ [][Next]_<<up, shown, taken, kept, muddled>>
=============================================================================
