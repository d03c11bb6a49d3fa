---------------------------- MODULE FlashPromise ----------------------------
(***************************************************************************)
(* What a host may rely on when it programs a flash block by block, without*)
(* the controller, the link or the programmer's steps: once the programmer *)
(* has reported the blocks of a sector, sent in order, as written, they    *)
(* are in the flash, and they stay there until the host asks for a block   *)
(* of their sector again.                                                  *)
(***************************************************************************)
EXTENDS Naturals, Sequences

CONSTANTS
  Blocks,   \* the blocks of the flash, numbered from 0
  Data,     \* what a block may be asked to hold
  Unsure    \* nothing is promised of a block

VARIABLES
  sectorsize,  \* blocks to a sector
  asking,      \* whether a block is being written
  draft,       \* the blocks of a sector asked for in order: [first, data]
  store        \* what each block is known to hold

vars == <<sectorsize, asking, draft, store>>

Sector(b) == {c \in Blocks : c \div sectorsize = b \div sectorsize}

Forgotten(S) == [b \in Blocks |-> IF b \in S THEN Unsure ELSE store[b]]

Drafted == draft.first .. draft.first + Len(draft.data) - 1

Init ==
  /\ sectorsize \in Nat \ {0}
  /\ asking = FALSE
  /\ draft = [first |-> 0, data |-> <<>>]
  /\ store = [b \in Blocks |-> Unsure]

\* The block either begins a draft, goes on with it, or ends it.
Ask(b, d) ==
  /\ ~asking /\ asking'
  /\ draft' \in {[first |-> b, data |-> <<d>>],
                 [first |-> draft.first, data |-> Append(draft.data, d)],
                 [first |-> 0, data |-> <<>>]}
  /\ draft'.data # <<>> => draft'.first + Len(draft'.data) - 1 = b
  /\ store' = Forgotten(Sector(b))
  /\ UNCHANGED sectorsize

\* The whole of a finished sector is promised, of an unfinished one as much as
\* there is or nothing.
Accept ==
  /\ asking /\ ~asking'
  /\ store' \in {store, [b \in Blocks |->
                   IF b \in Drafted THEN draft.data[b - draft.first + 1] ELSE store[b]]}
  /\ Len(draft.data) = sectorsize => \A b \in Drafted : store'[b] # Unsure
  /\ UNCHANGED <<sectorsize, draft>>

Refuse ==
  /\ asking /\ ~asking'
  /\ draft' = [first |-> 0, data |-> <<>>]
  /\ UNCHANGED <<sectorsize, store>>

\* The target lost its power, which the flash survives, or an access to it was
\* lost, after which nothing is known.
Abandon ==
  /\ draft' = [first |-> 0, data |-> <<>>]
  /\ \E S \in {{}, Blocks} : store' = Forgotten(S)
  /\ asking' \in BOOLEAN
  /\ UNCHANGED sectorsize

Next ==
  \/ \E b \in Blocks, d \in Data : Ask(b, d)
  \/ Accept \/ Refuse \/ Abandon

Spec == Init /\ [][Next]_vars
=============================================================================
