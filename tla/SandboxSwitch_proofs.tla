----------------------- MODULE SandboxSwitch_proofs -----------------------
(***************************************************************************)
(* What SandboxSwitch promises for every set of builds, size of a sandbox  *)
(* and number of retries.                                                  *)
(***************************************************************************)
EXTENDS SandboxSwitch, TLAPS

Places == Commands \cup {"wait", "clear", "done", "failed"}
Hosts == [at: Places, build: Builds, chunk: 1 .. Chunks, tries: 0 .. MaxTries + 1,
          twice: BOOLEAN]

\* A command leaves the host where it was, lets it go on, or fails.
LEMMA SentGoesOn ==
  ASSUME NEW answered \in BOOLEAN, NEW h \in Hosts, NEW next \in Places,
         Sent(answered, h, next)
  PROVE  /\ host' \in Hosts /\ host'.build = h.build /\ host'.chunk = h.chunk
         /\ host'.twice = h.twice /\ host'.at \in {"failed", h.at, next}
<1>1. h.tries \in 0 .. MaxTries + 1 /\ MaxTries \in Nat
  BY SandboxSwitchAssumption DEF Hosts
<1>2. CASE h.tries > MaxTries
  <2>1. host' = [h EXCEPT !.at = "failed"]
    BY <1>2 DEF Sent
  <2> QED
    BY <2>1 DEF Hosts, Places
<1>3. CASE ~(h.tries > MaxTries) /\ ~answered
  <2>1. host' = [h EXCEPT !.tries = h.tries + 1]
    BY <1>3 DEF Sent
  <2>2. h.tries + 1 \in 0 .. MaxTries + 1
    BY <1>1, <1>3
  <2> QED
    BY <2>1, <2>2 DEF Hosts
<1>4. CASE ~(h.tries > MaxTries) /\ answered
  <2>1. host' = [h EXCEPT !.at = next, !.tries = 0]
    BY <1>4 DEF Sent
  <2>2. 0 \in 0 .. MaxTries + 1
    BY <1>1
  <2> QED
    BY <2>1, <2>2 DEF Hosts
<1> QED
  BY <1>2, <1>3, <1>4

\* A command that got lost changes nothing but the count of tries.
LEMMA LostChangesNothing ==
  ASSUME host \in Hosts, Lost
  PROVE  /\ host' \in Hosts /\ UNCHANGED device /\ host'.build = host.build
         /\ host'.chunk = host.chunk /\ host'.twice = host.twice
         /\ host'.at \in {"failed", host.at}
<1>1. host.at \in Places /\ Sent(FALSE, host, host.at)
  BY DEF Lost, Hosts
<1> QED
  BY <1>1, SentGoesOn DEF Lost

-----------------------------------------------------------------------------
\* How far the present upload has come: switched off before it writes, all
\* written before it calls, called before it switches on.
UploadInOrder ==
  /\ host.at \in {"disable", "wait"} => host.chunk = 1
  /\ host.at \in {"wait", "write", "clear", "execute"} => current = None
  /\ host.at = "write" => \A c \in 1 .. host.chunk - 1 : memory[c] = host.build
  /\ host.at \in {"clear", "execute", "enable"} => Holds(host.build)
  /\ host.at = "enable" => /\ current \in {None, host.build}
                           /\ current = None => host.build \in up

Inv == TypeOK /\ CurrentIsWhole /\ CurrentIsUp /\ UploadInOrder

LEMMA TypeParts ==
  TypeOK <=> /\ current \in Builds \cup {None}
             /\ memory \in [1 .. Chunks -> Builds \cup {None}]
             /\ up \subseteq Builds
             /\ main \in [at: {"read", "found", "tick"}, sandbox: Builds \cup {None}]
             /\ host \in Hosts
  BY DEF TypeOK, Hosts, Places

LEMMA InitInv == Init => Inv
<1> SUFFICES ASSUME Init PROVE Inv
  OBVIOUS
<1>1. PICK b \in Builds :
        host = [at |-> "failed", build |-> b, chunk |-> 1, tries |-> 0, twice |-> FALSE]
  BY DEF Init
<1>2. 1 \in 1 .. Chunks /\ 0 \in 0 .. MaxTries + 1
  BY SandboxSwitchAssumption
<1>3. host \in Hosts
  BY <1>1, <1>2 DEF Hosts, Places
<1>4. TypeOK
  BY <1>3, TypeParts DEF Init
<1> QED
  BY <1>1, <1>4 DEF Init, Inv, CurrentIsWhole, CurrentIsUp, UploadInOrder

\* A step that leaves the device alone and takes the host to a place where no
\* upload is under way, or leaves it where it was, keeps the invariant.
LEMMA DeviceUntouched ==
  ASSUME Inv, UNCHANGED device, host' \in Hosts,
         main' \in [at: {"read", "found", "tick"}, sandbox: Builds \cup {None}],
         host'.twice = host.twice,
         \/ host'.at \in {"done", "failed"}
         \/ /\ host'.at = host.at /\ host'.build = host.build
            /\ host'.chunk = host.chunk
  PROVE  Inv'
<1>1. TypeOK'
  BY TypeParts DEF Inv, device, TypeOK, Hosts, Places
<1>2. CurrentIsWhole' /\ CurrentIsUp'
  BY DEF Inv, device, CurrentIsWhole, CurrentIsUp, Holds
<1>3. UploadInOrder'
  BY DEF Inv, device, UploadInOrder, Holds
<1> QED
  BY <1>1, <1>2, <1>3 DEF Inv

\* Every step keeps the invariant: one step of the proof per action.
LEMMA NextKeepsInv == ASSUME Inv, Next PROVE Inv'
<1>0. /\ host \in Hosts /\ up \subseteq Builds /\ current \in Builds \cup {None}
      /\ memory \in [1 .. Chunks -> Builds \cup {None}]
      /\ main \in [at: {"read", "found", "tick"}, sandbox: Builds \cup {None}]
      /\ Chunks \in Nat \ {0} /\ None \notin Builds
  BY TypeParts, SandboxSwitchAssumption DEF Inv
<1>1. CASE Loop
  <2>1. UNCHANGED <<device, host>>
    BY <1>1 DEF Loop, ReadMode, CallIdle, IdleReturns
  <2>2. main' \in [at: {"read", "found", "tick"}, sandbox: Builds \cup {None}]
    BY <1>0, <1>1 DEF Loop, ReadMode, CallIdle, IdleReturns
  <2> QED
    BY <1>0, <2>1, <2>2, DeviceUntouched
<1>2. CASE Lost /\ UNCHANGED main
  BY <1>0, <1>2, LostChangesNothing, DeviceUntouched
<1>3. CASE Disable
  <2>1. CASE Lost
    BY <1>2, <1>3, <2>1 DEF Disable
  <2>2. CASE ~Lost
    <3> DEFINE h == [host EXCEPT !.twice = FALSE]
    <3>1. PICK answered \in BOOLEAN : SwitchMode(None) /\ Sent(answered, h, "wait")
      BY <1>3, <2>2 DEF Disable
    <3>2. /\ h \in Hosts /\ h.at = "disable" /\ h.build = host.build
          /\ h.chunk = host.chunk
      BY <1>0, <1>3 DEF Hosts, Disable
    <3>3. h.chunk = 1
      BY <1>3, <3>2 DEF Inv, UploadInOrder, Disable
    <3> HIDE DEF h
    <3>4. /\ host' \in Hosts /\ host'.chunk = 1
          /\ host'.at \in {"failed", "disable", "wait"}
      BY <3>1, <3>2, <3>3, SentGoesOn DEF Places
    <3>5. /\ current' = None /\ memory' = memory /\ up' \subseteq Builds
          /\ UNCHANGED main
      BY <1>0, <1>3, <3>1 DEF SwitchMode, Disable
    <3>6. TypeOK'
      BY <1>0, <3>4, <3>5 DEF TypeOK, Hosts, Places
    <3> QED
      BY <3>4, <3>5, <3>6 DEF Inv, CurrentIsWhole, CurrentIsUp, UploadInOrder
  <2> QED
    BY <2>1, <2>2
<1>4. CASE Wait
  <2>1. host' = [host EXCEPT !.at = "write"] /\ UNCHANGED <<device, main>>
        /\ host.at = "wait"
    BY <1>4 DEF Wait
  <2>2. host' \in Hosts /\ host'.at = "write" /\ host'.chunk = 1 /\ current = None
        /\ host'.twice = host.twice
    BY <1>0, <2>1 DEF Hosts, Places, Commands, Inv, UploadInOrder
  <2>3. TypeOK'
    BY <1>0, <2>1, <2>2 DEF TypeOK, Hosts, Places, device
  <2> QED
    BY <2>1, <2>2, <2>3 DEF Inv, CurrentIsWhole, CurrentIsUp, UploadInOrder, device
<1>5. CASE Write
  <2>1. CASE Lost
    BY <1>2, <1>5, <2>1 DEF Write
  <2>2. CASE ~Lost
    <3>1. PICK answered \in BOOLEAN :
            /\ WriteRam(host.chunk, host.build)
            /\ IF answered /\ host.tries <= MaxTries /\ host.chunk < Chunks
               THEN host' = [host EXCEPT !.chunk = @ + 1, !.tries = 0]
               ELSE Sent(answered, host, "clear")
      BY <1>5, <2>2 DEF Write
    <3>2. /\ host.at = "write" /\ UNCHANGED <<main, current>> /\ current = None
          /\ up' \subseteq Builds
          /\ memory' = [memory EXCEPT ![host.chunk] = host.build]
          /\ host.chunk \in 1 .. Chunks /\ host.build \in Builds
      BY <1>0, <1>5, <3>1 DEF Write, WriteRam, Inv, UploadInOrder, Hosts
    <3>3. \A c \in 1 .. host.chunk : memory'[c] = host.build
      BY <1>0, <3>2 DEF Inv, UploadInOrder
    <3>4. memory' \in [1 .. Chunks -> Builds \cup {None}]
      BY <1>0, <3>2
    <3>5. CASE answered /\ host.tries <= MaxTries /\ host.chunk < Chunks
      <4>1. host' = [host EXCEPT !.chunk = host.chunk + 1, !.tries = 0]
        BY <3>1, <3>5
      <4>2. host.chunk + 1 \in 1 .. Chunks /\ 0 \in 0 .. MaxTries + 1
        BY <1>0, <3>2, <3>5, SandboxSwitchAssumption
      <4>3. /\ host' \in Hosts /\ host'.at = "write" /\ host'.chunk = host.chunk + 1
            /\ host'.build = host.build
        BY <1>0, <3>2, <4>1, <4>2 DEF Hosts
      <4>4. TypeOK'
        BY <1>0, <3>2, <3>4, <4>3 DEF TypeOK, Hosts, Places
      <4>5. \A c \in 1 .. host'.chunk - 1 : memory'[c] = host'.build
        BY <3>2, <3>3, <4>3
      <4> QED
        BY <3>2, <4>3, <4>4, <4>5
           DEF Inv, CurrentIsWhole, CurrentIsUp, UploadInOrder
    <3>6. CASE ~(answered /\ host.tries <= MaxTries /\ host.chunk < Chunks)
      <4>1. Sent(answered, host, "clear")
        BY <3>1, <3>6
      <4>2. /\ host' \in Hosts /\ host'.build = host.build /\ host'.chunk = host.chunk
            /\ host'.at \in {"failed", "write", "clear"}
        BY <1>0, <3>2, <4>1, SentGoesOn DEF Places
      <4>3. TypeOK'
        BY <1>0, <3>2, <3>4, <4>2 DEF TypeOK, Hosts, Places
      <4>4. \A c \in 1 .. host'.chunk - 1 : memory'[c] = host'.build
        BY <3>2, <3>3, <4>2
      <4>5. ASSUME host'.at = "clear" PROVE Holds(host.build)'
        <5>1. host.chunk = Chunks
          <6>1. ~(host.tries > MaxTries) /\ answered
            BY <3>2, <4>1, <4>5, <1>0 DEF Sent, Hosts
          <6>2. host.tries \in 0 .. MaxTries + 1 /\ MaxTries \in Nat
            BY <1>0, SandboxSwitchAssumption DEF Hosts
          <6> QED
            BY <1>0, <3>2, <3>6, <6>1, <6>2
        <5> QED
          BY <3>3, <4>2, <5>1 DEF Holds
      <4> QED
        BY <3>2, <4>2, <4>3, <4>4, <4>5
           DEF Inv, CurrentIsWhole, CurrentIsUp, UploadInOrder, Holds
    <3> QED
      BY <3>5, <3>6
  <2> QED
    BY <2>1, <2>2
<1>6. CASE Clear
  <2>1. PICK answered \in BOOLEAN : Sent(answered, host, "execute")
    BY <1>6 DEF Clear
  <2>2. host.at = "clear" /\ UNCHANGED <<device, main>>
    BY <1>6 DEF Clear
  <2>3. /\ host' \in Hosts /\ host'.build = host.build /\ host'.twice = host.twice
        /\ host'.at \in {"failed", "clear", "execute"}
    BY <1>0, <2>1, <2>2, SentGoesOn DEF Places, Commands
  <2>4. TypeOK'
    BY <1>0, <2>2, <2>3 DEF TypeOK, Hosts, Places, device
  <2> QED
    BY <2>2, <2>3, <2>4
       DEF Inv, CurrentIsWhole, CurrentIsUp, UploadInOrder, Holds, device
<1>7. CASE Execute
  <2>1. CASE Lost
    BY <1>2, <1>7, <2>1 DEF Execute
  <2>2. CASE ~Lost
    <3>1. PICK answered \in BOOLEAN :
            ExecRam(host.build) /\ Sent(answered, host, "enable")
      BY <1>7, <2>2 DEF Execute
    <3>2. /\ host.at = "execute" /\ UNCHANGED <<main, current, memory>>
          /\ up' = up \cup {host.build} /\ host.build \in Builds /\ current = None
          /\ Holds(host.build)
      BY <1>0, <1>7, <3>1 DEF Execute, ExecRam, Hosts, Inv, UploadInOrder
    <3>3. /\ host' \in Hosts /\ host'.build = host.build
          /\ host'.at \in {"failed", "execute", "enable"}
      BY <1>0, <3>1, <3>2, SentGoesOn DEF Places, Commands
    <3>4. TypeOK'
      BY <1>0, <3>2, <3>3 DEF TypeOK, Hosts, Places
    <3> QED
      BY <3>2, <3>3, <3>4
         DEF Inv, CurrentIsWhole, CurrentIsUp, UploadInOrder, Holds
  <2> QED
    BY <2>1, <2>2
<1>8. CASE Enable
  <2>1. CASE Lost
    BY <1>2, <1>8, <2>1 DEF Enable
  <2>2. CASE ~Lost
    <3> DEFINE h == [host EXCEPT !.twice = host.twice \/ current = host.build]
    <3>1. PICK answered \in BOOLEAN :
            SwitchMode(host.build) /\ Sent(answered, h, "done")
      BY <1>8, <2>2 DEF Enable
    <3>2. /\ h \in Hosts /\ h.at = "enable" /\ h.build = host.build
          /\ h.twice = (host.twice \/ current = host.build)
      BY <1>0, <1>8 DEF Hosts, Enable
    <3> HIDE DEF h
    <3>3. /\ host' \in Hosts /\ host'.build = host.build
          /\ host'.at \in {"failed", "enable", "done"}
          /\ host'.twice = (host.twice \/ current = host.build)
      BY <3>1, <3>2, SentGoesOn DEF Places
    <3>4. /\ current' = host.build /\ memory' = memory /\ UNCHANGED main
          /\ up' = up \ ({current} \cap Decoms) /\ host.build \in Builds
      BY <1>0, <1>8, <3>1 DEF SwitchMode, Enable, Hosts
    <3>5. /\ Holds(host.build) /\ current \in {None, host.build}
          /\ current = None => host.build \in up
      BY <1>8 DEF Enable, Inv, UploadInOrder
    <3>6. TypeOK'
      BY <1>0, <3>3, <3>4 DEF TypeOK, Hosts, Places
    <3>7. CurrentIsWhole'
      BY <3>4, <3>5 DEF CurrentIsWhole, Holds
    <3>8. CurrentIsUp'
      <4>1. CASE current = None
        BY <1>0, <3>4, <3>5, <4>1, SandboxSwitchAssumption DEF CurrentIsUp
      <4>2. CASE current = host.build
        BY <3>3, <4>2 DEF CurrentIsUp
      <4> QED
        BY <3>5, <4>1, <4>2
    <3>9. UploadInOrder'
      BY <1>0, <3>3, <3>4, <3>5 DEF UploadInOrder, Holds
    <3> QED
      BY <3>6, <3>7, <3>8, <3>9 DEF Inv
  <2> QED
    BY <2>1, <2>2
<1>9. ASSUME NEW b \in Builds, Start(b) PROVE Inv'
  <2>1. /\ host' = [host EXCEPT !.at = "disable", !.build = b, !.chunk = 1, !.tries = 0]
        /\ UNCHANGED <<device, main>>
    BY <1>9 DEF Start
  <2>2. 1 \in 1 .. Chunks /\ 0 \in 0 .. MaxTries + 1
    BY SandboxSwitchAssumption
  <2>3. /\ host' \in Hosts /\ host'.at = "disable" /\ host'.chunk = 1
        /\ host'.twice = host.twice
    BY <1>0, <2>1, <2>2 DEF Hosts, Places, Commands
  <2>4. TypeOK'
    BY <1>0, <2>1, <2>3 DEF TypeOK, Hosts, Places, device
  <2> QED
    BY <2>1, <2>3, <2>4
       DEF Inv, CurrentIsWhole, CurrentIsUp, UploadInOrder, Holds, device
<1>10. CASE Quit
  <2>1. host' = [host EXCEPT !.at = "failed"] /\ UNCHANGED <<device, main>>
    BY <1>10 DEF Quit
  <2>2. host' \in Hosts /\ host'.at = "failed" /\ host'.twice = host.twice
    BY <1>0, <2>1 DEF Hosts, Places
  <2> QED
    BY <1>0, <2>1, <2>2, DeviceUntouched
<1>11. CASE Restart
  <2>1. /\ current' = None /\ memory' = [c \in 1 .. Chunks |-> None] /\ up' = {}
        /\ main' = [at |-> "read", sandbox |-> None]
        /\ host' = [host EXCEPT !.at = IF host.at = "done" THEN host.at ELSE "failed"]
    BY <1>11 DEF Restart
  <2>2. host' \in Hosts /\ host'.at \in {"done", "failed"}
    BY <1>0, <2>1 DEF Hosts, Places
  <2>3. TypeOK'
    BY <2>1, <2>2 DEF TypeOK, Hosts, Places
  <2> QED
    BY <2>1, <2>2, <2>3 DEF Inv, CurrentIsWhole, CurrentIsUp, UploadInOrder
<1> QED
  BY <1>1, <1>3, <1>4, <1>5, <1>6, <1>7, <1>8, <1>9, <1>10, <1>11 DEF Next, Upload

LEMMA StutterKeepsInv == ASSUME Inv, UNCHANGED vars PROVE Inv'
<1>1. UNCHANGED device /\ UNCHANGED main /\ UNCHANGED host
  BY DEF vars, device
<1>2. TypeOK' /\ CurrentIsWhole' /\ CurrentIsUp' /\ UploadInOrder'
  BY <1>1 DEF Inv, device, TypeOK, CurrentIsWhole, CurrentIsUp, UploadInOrder, Holds
<1> QED
  BY <1>2 DEF Inv

LEMMA SpecKeepsInv == Spec => []Inv
<1>1. Inv /\ [Next]_vars => Inv'
  BY NextKeepsInv, StutterKeepsInv
<1> QED
  BY <1>1, InitInv, PTL DEF Spec

\* Every variable keeps its shape, and DoUpload's chunks stay inside the sandbox
\* memory however often one is sent again.
THEOREM TypeCorrect == Spec => []TypeOK
<1>1. Inv => TypeOK
  BY DEF Inv
<1> QED
  BY <1>1, SpecKeepsInv, PTL

\* Wherever an upload is stopped, repeated or started over, g_SandboxStruct points
\* at nothing or at a sandbox all of which is there.
THEOREM CurrentStaysWhole == Spec => []CurrentIsWhole
<1>1. Inv => CurrentIsWhole
  BY DEF Inv
<1> QED
  BY <1>1, SpecKeepsInv, PTL

\* A sandbox that is switched on has been set up and not been decommissioned,
\* unless the switch itself was repeated.
THEOREM CurrentStaysUp == Spec => []CurrentIsUp
<1>1. Inv => CurrentIsUp
  BY DEF Inv
<1> QED
  BY <1>1, SpecKeepsInv, PTL

=============================================================================
