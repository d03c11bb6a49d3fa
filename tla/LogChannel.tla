----------------------------- MODULE LogChannel -----------------------------
(***************************************************************************)
(* What the USB log promises, without its ring: characters come out in the *)
(* order they went in, each once, and the rest of a text is dropped only   *)
(* when Capacity characters are waiting ("Drop extra characters on the     *)
(* floor.", advanced_usb_control.c:66).                                    *)
(***************************************************************************)
EXTENDS Naturals, Sequences

CONSTANTS Tasks, Chars, Capacity

VARIABLES
  text,    \* text[t]: what task t still has to log of its present text
  queue,   \* the characters that wait for the host
  reply    \* the characters of the present reply to the host

vars == <<text, queue, reply>>

Init ==
  /\ text = [t \in Tasks |-> <<>>]
  /\ queue = <<>>
  /\ reply = <<>>

Log(t) ==
  /\ text[t] = <<>>
  /\ text'[t] \in Seq(Chars)
  /\ text' = [text EXCEPT ![t] = text'[t]]
  /\ UNCHANGED <<queue, reply>>

Accept(t) ==
  /\ text[t] # <<>> /\ Len(queue) < Capacity
  /\ queue' = Append(queue, Head(text[t]))
  /\ text' = [text EXCEPT ![t] = Tail(@)]
  /\ UNCHANGED reply

DropRest(t) ==
  /\ Len(queue) = Capacity
  /\ text' = [text EXCEPT ![t] = <<>>]
  /\ UNCHANGED <<queue, reply>>

StartReply == reply' = <<>> /\ UNCHANGED <<text, queue>>

Deliver ==
  /\ queue # <<>>
  /\ reply' = Append(reply, Head(queue))
  /\ queue' = Tail(queue)
  /\ UNCHANGED text

Next ==
  \/ \E t \in Tasks : Log(t) \/ Accept(t) \/ DropRest(t)
  \/ StartReply \/ Deliver

Spec == Init /\ [][Next]_vars
=============================================================================
