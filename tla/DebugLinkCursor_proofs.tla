------------------------ MODULE DebugLinkCursor_proofs ------------------------
(***************************************************************************)
(* What the cache's second field says, for every address space, every set  *)
(* of chips and every order of calls, faults and wire errors:              *)
(* currentstateval is where the target's cursor stands, and the word a     *)
(* ReadWord may answer without running anything is the one asked for.      *)
(* From that and from what statetag says (DebugLink_proofs) follows what   *)
(* the next ReadWord or WriteWord does.                                    *)
(*                                                                         *)
(* The proof goes call by call: what one run of a sequence program does,   *)
(* what pointing the cursor does, what ReadWord and WriteWord do, and then *)
(* one step per action.                                                    *)
(***************************************************************************)
EXTENDS DebugLink_proofs

\* The memory of the target, and the record that a wrong program was run.
SameStore(u, t) == u.mem = t.mem /\ u.stray = t.stray

\* Writing ABSTRACTAUTO or a PROGBUF register touches neither the mailbox nor
\* the memory.
LEMMA SetAutoKeeps ==
  ASSUME NEW t \in Target, NEW on \in BOOLEAN
  PROVE  /\ SameStore(SetAuto(t, on), t) /\ SetAuto(t, on).d0 = t.d0
         /\ SetAuto(t, on).d1 = t.d1 /\ SetAuto(t, on).err = t.err
BY DEF SetAuto, Target, SameStore

\* With autoexec off, writing DATA0 runs nothing.
LEMMA PutData0Quiet ==
  ASSUME NEW t \in Target, NEW v \in Value, ~t.auto
  PROVE  /\ SameStore(PutData0(t, v), t) /\ PutData0(t, v).d0 = v
         /\ PutData0(t, v).d1 = t.d1 /\ PutData0(t, v).err = t.err
BY DEF PutData0, Repeat, Target, SameStore

\* Nor does copying into the registers.
LEMMA TransferQuiet ==
  ASSUME NEW t \in Target, NEW x \in [Registers -> RegisterValues]
  PROVE  SameStore(Transfer(t, x), t)
BY DEF Transfer, Target, SameStore

\* One run of the read program: the memory stays, and without an error the word
\* under the cursor is in DATA0 and the cursor has made its step.
LEMMA RunRead ==
  ASSUME NEW t \in Target, NEW inc \in BOOLEAN, ReadLoaded(t, Step(inc)), t.halted
  PROVE  LET r == RunSequence(t) IN
         /\ SameStore(r, t)
         /\ ~r.err => /\ ~t.err /\ t.d1 \in Addr /\ r.d0 = t.mem[t.d1]
                      /\ r.d1 = IF inc THEN After(t.d1) ELSE t.d1
<1> DEFINE r == RunSequence(t)
<1>1. Reads(t) /\ (t.pb[1] = "inc" <=> inc)
  BY DEF Reads, ReadLoaded, Step
<1>2. CASE t.err
  <2>1. r = [t EXCEPT !.err = TRUE]
    BY <1>2 DEF RunSequence
  <2> QED
    BY <2>1 DEF Target, SameStore
<1>3. CASE ~t.err /\ t.d1 \notin Addr \ Unmapped
  <2>1. r = [t EXCEPT !.err = TRUE]
    BY <1>1, <1>3 DEF RunSequence
  <2> QED
    BY <2>1 DEF Target, SameStore
<1>4. CASE ~t.err /\ t.d1 \in Addr \ Unmapped
  <2>1. r = [t EXCEPT !.d0 = t.mem[t.d1],
                      !.d1 = IF t.pb[1] = "inc" THEN After(t.d1) ELSE t.d1]
    BY <1>1, <1>4 DEF RunSequence
  <2> QED
    BY <1>1, <1>4, <2>1 DEF Target, SameStore
<1> QED
  BY <1>2, <1>3, <1>4

\* One run of the store program: without an error the word in DATA0 is under
\* the cursor, nothing else has changed and the cursor has moved on.
LEMMA RunStores ==
  ASSUME NEW t \in Target, NEW flash \in BOOLEAN,
         StoreLoaded(t, Tail(flash)), FlashSet(t), t.halted
  PROVE  LET r == RunSequence(t) IN
         /\ r.stray = t.stray
         /\ ~r.err => /\ ~t.err /\ t.d1 \in Addr /\ r.d1 = After(t.d1)
                      /\ r.mem = [t.mem EXCEPT ![t.d1] = t.d0]
<1> DEFINE r == RunSequence(t)
<1>1. ~Reads(t) /\ Stores(t)
  BY DEF Reads, ReadLoaded, Stores, StoreLoaded, Tail
<1>2. CASE t.err
  <2>1. r = [t EXCEPT !.err = TRUE]
    BY <1>2 DEF RunSequence
  <2> QED
    BY <2>1 DEF Target
<1>3. CASE ~t.err /\ t.d1 \notin Addr \ Unmapped
  <2>1. r = [t EXCEPT !.err = TRUE]
    BY <1>1, <1>3 DEF RunSequence
  <2> QED
    BY <2>1 DEF Target
<1>4. CASE ~t.err /\ t.d1 \in Addr \ Unmapped
  <2>1. r = [t EXCEPT !.mem = [t.mem EXCEPT ![t.d1] = t.d0], !.d1 = After(t.d1)]
    BY <1>1, <1>4 DEF RunSequence
  <2> QED
    BY <1>4, <2>1 DEF Target
<1> QED
  BY <1>2, <1>3, <1>4

\* The same of DMCOMMAND, which does nothing after an error.
LEMMA ExecuteReads ==
  ASSUME NEW t \in Target, NEW inc \in BOOLEAN, ReadLoaded(t, Step(inc)), t.halted
  PROVE  LET r == Execute(t) IN
         /\ SameStore(r, t)
         /\ ~r.err => /\ ~t.err /\ t.d1 \in Addr /\ r.d0 = t.mem[t.d1]
                      /\ r.d1 = IF inc THEN After(t.d1) ELSE t.d1
<1> DEFINE u == [t EXCEPT !.cmd = "run"]
<1>1. /\ u \in Target /\ u.pb = t.pb /\ u.x = t.x /\ u.halted = t.halted
      /\ u.err = t.err /\ u.d1 = t.d1 /\ u.mem = t.mem /\ u.stray = t.stray
  BY DEF Target
<1>2. Execute(t) = IF t.err THEN t ELSE RunSequence(u)
  BY DEF Execute
<1> HIDE DEF u
<1>3. ReadLoaded(u, Step(inc)) /\ u.halted
  BY <1>1 DEF ReadLoaded, MailboxSet
<1>4. LET r == RunSequence(u) IN
      /\ SameStore(r, u)
      /\ ~r.err => /\ ~u.err /\ u.d1 \in Addr /\ r.d0 = u.mem[u.d1]
                   /\ r.d1 = IF inc THEN After(u.d1) ELSE u.d1
  BY <1>1, <1>3, RunRead
<1>5. CASE t.err
  BY <1>2, <1>5 DEF SameStore
<1>6. CASE ~t.err
  <2>1. Execute(t) = RunSequence(u)
    BY <1>2, <1>6
  <2> QED
    BY <1>1, <1>4, <2>1 DEF SameStore
<1> QED
  BY <1>5, <1>6

\* DMCOMMAND and the store program.
LEMMA ExecuteStores ==
  ASSUME NEW t \in Target, NEW flash \in BOOLEAN,
         StoreLoaded(t, Tail(flash)), FlashSet(t), t.halted
  PROVE  LET r == Execute(t) IN
         /\ r.stray = t.stray
         /\ ~r.err => /\ ~t.err /\ t.d1 \in Addr /\ r.d1 = After(t.d1)
                      /\ r.mem = [t.mem EXCEPT ![t.d1] = t.d0]
<1> DEFINE u == [t EXCEPT !.cmd = "run"]
<1>1. /\ u \in Target /\ u.pb = t.pb /\ u.x = t.x /\ u.halted = t.halted
      /\ u.err = t.err /\ u.d1 = t.d1 /\ u.d0 = t.d0 /\ u.mem = t.mem
      /\ u.stray = t.stray
  BY DEF Target
<1>2. Execute(t) = IF t.err THEN t ELSE RunSequence(u)
  BY DEF Execute
<1> HIDE DEF u
<1>3. StoreLoaded(u, Tail(flash)) /\ FlashSet(u) /\ u.halted
  BY <1>1 DEF StoreLoaded, MailboxSet, FlashSet
<1>4. LET r == RunSequence(u) IN
      /\ r.stray = u.stray
      /\ ~r.err => /\ ~u.err /\ u.d1 \in Addr /\ r.d1 = After(u.d1)
                   /\ r.mem = [u.mem EXCEPT ![u.d1] = u.d0]
  BY <1>1, <1>3, RunStores
<1>5. CASE t.err
  BY <1>2, <1>5
<1>6. CASE ~t.err
  <2>1. Execute(t) = RunSequence(u)
    BY <1>2, <1>6
  <2> QED
    BY <1>1, <1>4, <2>1
<1> QED
  BY <1>5, <1>6

-----------------------------------------------------------------------------
(***************************************************************************)
(* ReadWord                                                                *)
(***************************************************************************)
\* The part of CursorInStep that is about one device; sn is what the status
\* registers have held since the last store.
Cursor(d, sn) ==
  d.setup /\ d.sync =>
    /\ d.statetag \in SequenceTags => ~d.t.err
    /\ d.statetag = "WRSQ" => d.t.d1 = d.currentstateval
    /\ d.statetag = "RDSQ" =>
         IF d.no_autoexec \/ ~d.autoincrement
         THEN d.t.d1 = d.currentstateval
         ELSE /\ d.t.d1 = After(d.currentstateval)
              /\ d.currentstateval \notin StatusAddrs =>
                   d.t.d0 = d.t.mem[d.currentstateval]
    /\ d.statetag = "RDSQ" /\ ~d.autoincrement =>
         /\ d.currentstateval \in StatusAddrs
         /\ ~d.no_autoexec => d.t.d0 \in sn[d.currentstateval]

\* The ghost knows at least what the status registers hold now.
Fresh(d, sn) == \A a \in StatusAddrs : d.t.mem[a] \in sn[a]

\* What a ReadWord of address a may answer on a memory m.
Answers(m, sn, a, word) == IF a \in StatusAddrs THEN word \in sn[a] ELSE word = m[a]

\* StaticUpdatePROGBUFRegs runs nothing: it disables autoexec first.
LEMMA StaticUpdateQuiet ==
  ASSUME NEW d \in Device, NEW glitch \in Glitches
  PROVE  StaticUpdate(d, glitch) \in Device /\ SameStore(StaticUpdate(d, glitch).t, d.t)
<1> DEFINE ok == glitch # "hartinfo"
           s == SetAuto(d.t, FALSE)
           u == PutData0(s, Junk)
           t == Transfer(u, StaticRegisters(ok))
<1>1. d.t \in Target /\ Junk \in Value /\ ok \in BOOLEAN
  BY DeviceParts, JunkIsValue
<1> DEFINE setup == IF t.err THEN d.setup /\ d.statetag \in SequenceTags
                    ELSE ok /\ AutoUsable(d)
<1>2. StaticUpdate(d, glitch) = [d EXCEPT !.t = t, !.setup = setup]
  BY DEF StaticUpdate
<1>7. setup \in BOOLEAN
  BY DeviceParts
<1> HIDE DEF ok, setup
<1>3. StaticRegisters(ok) \in [Registers -> RegisterValues]
  BY <1>1, StaticRegistersType
<1>4. s \in Target /\ ~s.auto /\ SameStore(s, d.t)
  BY <1>1, SetAutoType, SetAutoKeeps
<1> HIDE DEF s
<1>5. u \in Target /\ SameStore(u, s)
  BY <1>1, <1>4, PutData0Type, PutData0Quiet
<1> HIDE DEF u
<1>6. t \in Target /\ SameStore(t, u)
  BY <1>3, <1>5, TransferType, TransferQuiet
<1> HIDE DEF t
<1>8. StaticUpdate(d, glitch) \in Device /\ StaticUpdate(d, glitch).t = t
  BY <1>2, <1>6, <1>7 DEF Device
<1> QED
  BY <1>4, <1>5, <1>6, <1>8 DEF SameStore

\* Loading the read program runs nothing either, and a ReadWord whose program
\* is already loaded leaves the device as it is.
LEMMA LoadReadQuiet ==
  ASSUME NEW d \in Device, NEW inc \in BOOLEAN, NEW glitch \in Glitches
  PROVE  SameStore(LoadRead(d, inc, glitch).t, d.t)
<1>1. CASE d.statetag = "RDSQ" /\ inc = d.autoincrement
  BY <1>1 DEF LoadRead, SameStore
<1>2. CASE ~(d.statetag = "RDSQ" /\ inc = d.autoincrement)
  <2> DEFINE s == ReadReady(d, glitch)
             step == IF inc THEN "inc" ELSE "keep"
             t == [s.t EXCEPT !.pb[0] = "lw_addr", !.pb[1] = step, !.pb[2] = "sw_addr"]
  <2>1. s \in Device /\ SameStore(s.t, d.t)
    <3>1. CASE d.statetag = "WRSQ"
      BY <3>1 DEF ReadReady, SameStore
    <3>2. CASE d.statetag # "WRSQ"
      BY <3>2, StaticUpdateQuiet DEF ReadReady
    <3> QED
      BY <3>1, <3>2
  <2>2. LoadRead(d, inc, glitch)
          = [s EXCEPT !.autoincrement = inc, !.t = SetAuto(t, ~s.no_autoexec)]
    BY <1>2 DEF LoadRead, WithReadProgram
  <2> HIDE DEF s
  <2>3. s.t \in Target /\ s.no_autoexec \in BOOLEAN
    BY <2>1, DeviceParts
  <2>4. t \in Target /\ SameStore(t, s.t)
    <3> DEFINE pb == [s.t.pb EXCEPT ![0] = "lw_addr", ![1] = step, ![2] = "sw_addr"]
    <3>1. pb \in [0 .. 3 -> Code]
      BY <2>3 DEF Target, Code
    <3>2. t = [s.t EXCEPT !.pb = pb]
      BY <2>3 DEF Target
    <3> HIDE DEF pb, t
    <3> QED
      BY <2>3, <3>1, <3>2 DEF Target, SameStore
  <2> HIDE DEF t
  <2>5. SameStore(SetAuto(t, ~s.no_autoexec), t)
    BY <2>3, <2>4, SetAutoKeeps
  <2>6. LoadRead(d, inc, glitch).t = SetAuto(t, ~s.no_autoexec)
    BY <2>1, <2>2 DEF Device
  <2> QED
    BY <2>1, <2>4, <2>5, <2>6 DEF SameStore
<1> QED
  BY <1>1, <1>2

\* The target u is where a ReadWord of address a has it when it takes the word
\* from DATA0: the cursor has made its step and the word is a right one.
Fetched(u, m, sn, a) ==
  /\ u.d1 = IF a \in StatusAddrs THEN a ELSE After(a)
  /\ Answers(m, sn, a, u.d0)

\* After the cursor has been pointed, or was found to be there, it is there; and
\* where autoexec has run the program already, the word has been fetched.
LEMMA PointReadCursor ==
  ASSUME NEW d, Good(d), NEW sn, Cursor(d, sn), Fresh(d, sn),
         NEW a \in Addr, NEW glitch \in Glitches
  PROVE  LET p == PointRead(d, a, Steps(a), glitch) IN
         /\ p.autoincrement = Steps(a)
         /\ p.setup => SameStore(p.t, d.t)
         /\ p.setup /\ p.sync /\ ~p.t.err =>
              IF p.no_autoexec THEN p.t.d1 = a ELSE Fetched(p.t, d.t.mem, sn, a)
<1> DEFINE inc == Steps(a)
           p == PointRead(d, a, inc, glitch)
<1>0. d \in Device /\ Truthful(d) /\ inc \in BOOLEAN
  BY DEF Good, Steps
<1>1. CASE d.statetag = "RDSQ" /\ inc = d.autoincrement /\ a = d.currentstateval
  <2>1. p = d
    BY <1>1 DEF PointRead
  <2>2. ASSUME d.setup, d.sync
        PROVE  IF d.no_autoexec THEN d.t.d1 = a ELSE Fetched(d.t, d.t.mem, sn, a)
    <3>1. CASE d.no_autoexec
      BY <1>1, <2>2, <3>1 DEF Cursor
    <3>2. CASE ~d.no_autoexec /\ inc
      BY <1>1, <2>2, <3>2 DEF Cursor, Fetched, Answers, Steps
    <3>3. CASE ~d.no_autoexec /\ ~inc
      BY <1>1, <2>2, <3>3 DEF Cursor, Fetched, Answers
    <3> QED
      BY <3>1, <3>2, <3>3
  <2> HIDE DEF p
  <2> QED
    BY <1>1, <2>1, <2>2 DEF SameStore, p
<1>2. CASE ~(d.statetag = "RDSQ" /\ inc = d.autoincrement /\ a = d.currentstateval)
  <2> DEFINE s == LoadRead(d, inc, glitch)
             u == [s.t EXCEPT !.d1 = a]
             t == IF s.no_autoexec THEN u ELSE Execute(u)
  <2>1. s \in Device /\ ReadArmed(s, inc) /\ SameStore(s.t, d.t)
    BY <1>0, LoadReadArmed, LoadReadQuiet
  <2>2. p = [s EXCEPT !.statetag = "RDSQ", !.currentstateval = a, !.sync = TRUE,
                      !.t = t]
    BY <1>2 DEF PointRead, Pointed
  <2> HIDE DEF s
  <2>3. /\ p.autoincrement = inc /\ p.setup = s.setup /\ p.t = t
        /\ p.no_autoexec = s.no_autoexec
    BY <2>1, <2>2 DEF Device, ReadArmed
  <2>4. /\ u \in Target /\ u.d1 = a /\ SameStore(u, s.t) /\ u.pb = s.t.pb
        /\ u.x = s.t.x /\ u.halted = s.t.halted
    BY <2>1, DeviceParts DEF Target, SameStore
  <2> HIDE DEF u
  <2>5. ASSUME s.setup
        PROVE  /\ SameStore(t, d.t)
               /\ ~t.err => IF s.no_autoexec THEN t.d1 = a ELSE Fetched(t, d.t.mem, sn, a)
    <3>1. ReadLoaded(u, Step(inc)) /\ u.halted
      BY <2>1, <2>4, <2>5 DEF ReadArmed, ReadLoaded, MailboxSet
    <3>2. LET r == Execute(u) IN
          /\ SameStore(r, u)
          /\ ~r.err => /\ ~u.err /\ u.d1 \in Addr /\ r.d0 = u.mem[u.d1]
                       /\ r.d1 = IF inc THEN After(u.d1) ELSE u.d1
      BY <1>0, <2>4, <3>1, ExecuteReads
    <3>3. CASE s.no_autoexec
      BY <2>1, <2>4, <3>3 DEF SameStore
    <3>4. CASE ~s.no_autoexec
      <4>1. t = Execute(u) /\ SameStore(t, d.t)
        BY <2>1, <2>4, <3>2, <3>4 DEF SameStore
      <4>2. ASSUME ~t.err PROVE Fetched(t, d.t.mem, sn, a)
        <5>1. t.d0 = d.t.mem[a] /\ t.d1 = IF inc THEN After(a) ELSE a
          BY <2>1, <2>4, <3>2, <4>1, <4>2 DEF SameStore
        <5> QED
          BY <5>1 DEF Fetched, Answers, Fresh, Steps
      <4> QED
        BY <3>4, <4>1, <4>2
    <3> QED
      BY <3>3, <3>4
  <2> HIDE DEF t, p
  <2> QED
    BY <2>3, <2>5 DEF p
<1> QED
  BY <1>1, <1>2

\* ReadWord keeps the cursor known, changes no memory, and answers a right word
\* whenever it reports success and the cursor was known.
LEMMA ReadWordCursor ==
  ASSUME NEW d, Good(d), NEW sn, Cursor(d, sn), Fresh(d, sn),
         NEW a \in Addr, NEW glitch \in Glitches
  PROVE  LET r == ReadWordKnown(d, a, glitch) IN
         /\ Cursor(r.dev, sn)
         /\ r.dev.setup => SameStore(r.dev.t, d.t)
         /\ r.exact /\ r.status = "ok" => r.dev.setup /\ Answers(d.t.mem, sn, a, r.word)
<1> DEFINE inc == Steps(a)
           p == PointRead(d, a, inc, glitch)
           u == IF p.no_autoexec THEN Execute(p.t) ELSE p.t
           c == IF inc THEN After(p.currentstateval) ELSE p.currentstateval
           s == [p EXCEPT !.currentstateval = c]
           w == Repeat(u)
           m == d.t.mem
           r == ReadWordKnown(d, a, glitch)
<1>0. r = Answer(s, u, glitch)
  BY DEF ReadWordKnown, Fetch
<1>1. Good(p) /\ p.statetag = "RDSQ" /\ p.currentstateval = a
  <2>1. inc \in BOOLEAN
    BY DEF Steps
  <2> QED
    BY <2>1, PointReadGood
<1>2. /\ p.autoincrement = inc
      /\ p.setup => SameStore(p.t, d.t)
      /\ p.setup /\ p.sync /\ ~p.t.err =>
           IF p.no_autoexec THEN p.t.d1 = a ELSE Fetched(p.t, m, sn, a)
  BY PointReadCursor
<1> HIDE DEF p
<1>3. p \in Device /\ p.t \in Target /\ Truthful(p)
  BY <1>1, DeviceParts DEF Good
<1>4. ASSUME p.setup
      PROVE  /\ ReadLoaded(p.t, Step(inc)) /\ p.t.halted
             /\ p.t.auto = ~p.no_autoexec /\ (p.t.auto => p.t.cmd = "run")
  BY <1>1, <1>2, <1>3, <1>4 DEF Truthful, Program, Step, SequenceTags
<1>5. u \in Target /\ Ran(u, p.t)
  BY <1>3, RunsRan DEF Ran
<1>6. ASSUME p.setup
      PROVE  /\ SameStore(u, d.t)
             /\ p.sync /\ ~u.err => Fetched(u, m, sn, a)
  <2>1. CASE ~p.no_autoexec
    BY <1>2, <1>6, <2>1
  <2>2. CASE p.no_autoexec
    <3>1. u = Execute(p.t)
      BY <2>2
    <3>2. LET e == Execute(p.t) IN
          /\ SameStore(e, p.t)
          /\ ~e.err => /\ ~p.t.err /\ p.t.d1 \in Addr /\ e.d0 = p.t.mem[p.t.d1]
                       /\ e.d1 = IF inc THEN After(p.t.d1) ELSE p.t.d1
      BY <1>3, <1>4, <1>6, ExecuteReads DEF Steps
    <3> HIDE DEF u
    <3>3. ASSUME p.sync, ~u.err PROVE Fetched(u, m, sn, a)
      <4>1. u.d0 = m[a] /\ u.d1 = IF inc THEN After(a) ELSE a
        BY <1>2, <1>6, <2>2, <3>1, <3>2, <3>3 DEF SameStore
      <4> QED
        BY <4>1 DEF Fetched, Answers, Fresh, Steps
    <3> QED
      BY <1>2, <1>6, <3>1, <3>2, <3>3 DEF SameStore
  <2> QED
    BY <2>1, <2>2
<1>7. c = IF inc THEN After(a) ELSE a
  BY <1>1
<1> HIDE DEF u, c
<1>8. c \in Addr
  BY <1>7, AfterInAddr
<1>9. /\ s \in Device /\ s.t = p.t /\ s.statetag = "RDSQ" /\ s.setup = p.setup
      /\ s.sync = p.sync /\ s.autoincrement = inc /\ s.no_autoexec = p.no_autoexec
      /\ s.currentstateval = c
  BY <1>1, <1>2, <1>3, <1>8 DEF Device
<1> HIDE DEF s
<1>10. ASSUME p.setup
       PROVE  /\ SameStore(w, d.t)
              /\ p.no_autoexec => w = u
              /\ ~p.no_autoexec /\ ~w.err =>
                   /\ ~u.err /\ w.d0 = m[u.d1]
                   /\ w.d1 = IF inc THEN After(u.d1) ELSE u.d1
  <2>1. CASE p.no_autoexec
    <3>1. ~u.auto
      BY <1>4, <1>5, <1>10, <2>1 DEF Ran
    <3>2. w = u
      BY <3>1 DEF Repeat
    <3> QED
      BY <1>6, <1>10, <2>1, <3>2
  <2>2. CASE ~p.no_autoexec
    <3>1. /\ u.auto /\ u.cmd = "run" /\ ReadLoaded(u, Step(inc)) /\ u.halted
      BY <1>4, <1>5, <1>10, <2>2 DEF Ran, ReadLoaded, MailboxSet
    <3>2. w = RunSequence(u)
      BY <3>1 DEF Repeat
    <3>3. LET e == RunSequence(u) IN
          /\ SameStore(e, u)
          /\ ~e.err => /\ ~u.err /\ u.d1 \in Addr /\ e.d0 = u.mem[u.d1]
                       /\ e.d1 = IF inc THEN After(u.d1) ELSE u.d1
      BY <1>5, <3>1, RunRead DEF Steps
    <3> HIDE DEF w
    <3> QED
      BY <1>6, <1>10, <2>2, <3>2, <3>3 DEF SameStore
  <2> QED
    BY <2>1, <2>2
<1>11. w \in Target /\ DoneTarget(u, glitch) \in Target
       /\ SameStore(DoneTarget(u, glitch), u)
  <2>1. SameStore(DoneTarget(u, glitch), u)
    BY <1>5 DEF DoneTarget, SameStore, Target
  <2> QED
    BY <1>5, <2>1, RunsRan
<1> HIDE DEF w
<1>12. CASE DoneStatus(u, glitch) # "ok"
  <2> DEFINE e == [s EXCEPT !.t = DoneTarget(u, glitch), !.sync = FALSE]
  <2>1. r = Result(e, DoneStatus(u, glitch), Junk, FALSE)
    BY <1>0, <1>12 DEF Answer
  <2>3. e.t = DoneTarget(u, glitch) /\ e.setup = p.setup /\ ~e.sync
    BY <1>9 DEF Device
  <2> HIDE DEF e
  <2>2. /\ r.dev.t = DoneTarget(u, glitch) /\ r.dev.setup = p.setup /\ ~r.dev.sync
        /\ ~r.exact
    BY <2>1, <2>3 DEF Result
  <2> HIDE DEF r
  <2> QED
    BY <1>6, <1>11, <2>2 DEF Cursor, SameStore, r
<1>13. CASE DoneStatus(u, glitch) = "ok" /\ glitch \in {"data_lost", "data_late"}
  <2> DEFINE v == IF glitch = "data_late" THEN w ELSE u
             e == [s EXCEPT !.t = v, !.sync = FALSE]
  <2>1. r = Result(e, "link", Junk, FALSE)
    BY <1>0, <1>13 DEF Answer, w
  <2>2. p.setup => SameStore(v, d.t)
    BY <1>6, <1>10
  <2> HIDE DEF v
  <2>4. e.t = v /\ e.setup = p.setup /\ ~e.sync
    BY <1>9 DEF Device
  <2> HIDE DEF e
  <2>3. r.dev.t = v /\ r.dev.setup = p.setup /\ ~r.dev.sync /\ ~r.exact
    BY <2>1, <2>4 DEF Result
  <2> HIDE DEF r
  <2> QED
    BY <2>2, <2>3 DEF Cursor, r
<1>14. CASE DoneStatus(u, glitch) = "ok" /\ glitch \notin {"data_lost", "data_late"}
  <2> DEFINE b == s.sync /\ ~w.err
             e == [s EXCEPT !.t = w, !.sync = b]
  <2>1. r = Result(e, "ok", u.d0, s.setup /\ s.sync)
    BY <1>0, <1>14 DEF Answer, w
  <2>2. ~u.err
    BY <1>14 DEF DoneStatus
  <2>3. /\ e.t = w /\ e.setup = p.setup /\ e.sync = (p.sync /\ ~w.err)
        /\ e.statetag = "RDSQ" /\ e.autoincrement = inc
        /\ e.no_autoexec = p.no_autoexec /\ e.currentstateval = c
    BY <1>9 DEF Device
  <2> HIDE DEF e
  <2>4. r.dev = e /\ r.word = u.d0 /\ r.exact = (p.setup /\ p.sync)
    BY <1>9, <2>1 DEF Result
  <2> HIDE DEF r
  <2>5. p.setup => SameStore(e.t, d.t)
    BY <1>10, <2>3
  <2>6. ASSUME p.setup, p.sync PROVE Answers(m, sn, a, u.d0)
    BY <1>6, <2>2, <2>6 DEF Fetched
  <2>7. Cursor(e, sn)
    <3>1. SUFFICES ASSUME p.setup, p.sync, ~w.err
                   PROVE  /\ ~w.err
                          /\ IF p.no_autoexec \/ ~inc THEN w.d1 = c
                             ELSE /\ w.d1 = After(c)
                                  /\ c \notin StatusAddrs => w.d0 = w.mem[c]
                          /\ ~inc => /\ c \in StatusAddrs
                                     /\ ~p.no_autoexec => w.d0 \in sn[c]
      BY <2>3 DEF Cursor
    <3>2. u.d1 = c /\ Answers(m, sn, a, u.d0)
      BY <1>6, <1>7, <2>2, <3>1 DEF Fetched, Steps
    <3>3. CASE p.no_autoexec
      BY <1>7, <1>10, <3>1, <3>2, <3>3 DEF Steps
    <3>4. CASE ~p.no_autoexec
      <4>1. /\ w.d0 = m[c] /\ w.d1 = (IF inc THEN After(c) ELSE c) /\ w.mem = m
        BY <1>10, <3>1, <3>2, <3>4 DEF SameStore
      <4>2. ~inc => m[c] \in sn[c] /\ c \in StatusAddrs
        BY <1>7 DEF Fresh, Steps
      <4> QED
        BY <3>1, <3>4, <4>1, <4>2
    <3> QED
      BY <3>3, <3>4
  <2>8. e.setup = p.setup
    BY <2>3
  <2> QED
    BY <2>4, <2>5, <2>6, <2>7, <2>8 DEF r
<1> QED
  BY <1>12, <1>13, <1>14

-----------------------------------------------------------------------------
(***************************************************************************)
(* WriteWord                                                               *)
(***************************************************************************)
\* Loading the store program, or only its tail, runs nothing.
LEMMA LoadStoreQuiet ==
  ASSUME NEW d, Good(d), NEW flash \in BOOLEAN, NEW glitch \in Glitches
  PROVE  SameStore(LoadStore(d, flash, glitch).t, d.t)
<1> DEFINE q == [d EXCEPT !.t = SetAuto(d.t, FALSE)]
           s == IF d.statetag = "WRSQ" THEN d ELSE StoreReady(q, glitch)
           u == IF s.statetag = "WRSQ" THEN s.t
                ELSE [s.t EXCEPT !.pb[0] = "lw_both", !.pb[1] = "store"]
           v == LoadTail(u, s.target_chip_type, flash)
<1>0. d \in Device /\ d.t \in Target
  BY DeviceParts DEF Good
<1>1. /\ q \in Device /\ q.statetag = d.statetag /\ q.setup = d.setup
      /\ SameStore(q.t, d.t)
  <2>1. SetAuto(d.t, FALSE) \in Target /\ SameStore(SetAuto(d.t, FALSE), d.t)
    BY <1>0, SetAutoType, SetAutoKeeps
  <2> QED
    BY <1>0, <2>1 DEF Device
<1>2. LoadStore(d, flash, glitch) = [s EXCEPT !.t = v]
  BY DEF LoadStore, WithStoreProgram
<1> HIDE DEF q
<1>3. s \in Device /\ SameStore(s.t, d.t)
  <2>1. CASE d.statetag = "WRSQ"
    BY <1>0, <2>1 DEF SameStore
  <2>2. CASE d.statetag = "RDSQ"
    BY <1>1, <2>2 DEF StoreReady, SequenceTags
  <2>3. CASE d.statetag \notin SequenceTags
    <3>1. s = StaticUpdate(q, glitch)
      BY <1>1, <2>3 DEF StoreReady, SequenceTags
    <3>2. StaticUpdate(q, glitch) \in Device /\ SameStore(StaticUpdate(q, glitch).t, q.t)
      BY <1>1, StaticUpdateQuiet
    <3> HIDE DEF s
    <3> QED
      BY <1>1, <3>1, <3>2 DEF SameStore
  <2> QED
    BY <2>1, <2>2, <2>3 DEF SequenceTags
<1> HIDE DEF s
<1>4. s.t \in Target /\ s.target_chip_type \in Chips
  BY <1>3, DeviceParts
<1>5. u \in Target /\ SameStore(u, s.t)
  <2>1. CASE s.statetag = "WRSQ"
    BY <1>4, <2>1 DEF SameStore
  <2>2. CASE s.statetag # "WRSQ"
    <3> DEFINE pb == [s.t.pb EXCEPT ![0] = "lw_both", ![1] = "store"]
    <3>1. pb \in [0 .. 3 -> Code]
      BY <1>4 DEF Target, Code
    <3>2. u = [s.t EXCEPT !.pb = pb]
      BY <1>4, <2>2 DEF Target
    <3> HIDE DEF pb, u
    <3> QED
      BY <1>4, <3>1, <3>2 DEF Target, SameStore
  <2> QED
    BY <2>1, <2>2
<1> HIDE DEF u
<1>6. SameStore(v, u)
  BY <1>5 DEF LoadTail, Target, SameStore
<1> HIDE DEF v
<1>7. LoadStore(d, flash, glitch).t = v
  BY <1>2, <1>3 DEF Device
<1> QED
  BY <1>3, <1>5, <1>6, <1>7 DEF SameStore

\* Once the store program is in place it runs exactly once, whichever way it is
\* started: by autoexec, by DMCOMMAND, or by DMCOMMAND before autoexec is on.
LEMMA RunStoreOnce ==
  ASSUME NEW d, Good(d), NEW s \in Device, NEW a \in Addr, NEW v \in Value,
         StoreArmed(s, d, a \in FlashAddrs), s.setup
  PROVE  LET c == IF StoreHits(d, a \in FlashAddrs) /\ a = d.currentstateval
                  THEN s.t.d1 ELSE a
             u == RunStore(d, s, a, v)
         IN  /\ u.stray = s.t.stray
             /\ ~u.err => u.d1 = After(c) /\ u.mem = [s.t.mem EXCEPT ![c] = v]
<1> DEFINE flash == a \in FlashAddrs
           c == IF StoreHits(d, flash) /\ a = d.currentstateval THEN s.t.d1 ELSE a
           p == [s.t EXCEPT !.d1 = c]
           q == [p EXCEPT !.d0 = v]
           w == PutData0(p, v)
           u == RunStore(d, s, a, v)
<1>0. s.t \in Target /\ s.no_autoexec \in BOOLEAN /\ flash \in BOOLEAN
  BY DeviceParts
<1>1. u = IF s.no_autoexec THEN Execute(w)
          ELSE IF d.statetag # "WRSQ" THEN SetAuto(Execute(w), TRUE) ELSE w
  BY <1>0 DEF RunStore, Target
<1>2. /\ StoreLoaded(s.t, Tail(flash)) /\ FlashSet(s.t) /\ s.t.halted
      /\ IF d.statetag = "WRSQ"
         THEN s.t.auto = ~s.no_autoexec /\ (s.t.auto => s.t.cmd = "run")
         ELSE ~s.t.auto
  BY DEF StoreArmed
<1>3. w = IF q.auto /\ q.cmd = "run" THEN RunSequence(q) ELSE q
  BY DEF PutData0, Repeat
<1> HIDE DEF flash, w, u
<1>4. c \in Addr \cup {Junk}
  BY <1>0 DEF Target
<1> HIDE DEF c
<1>5. /\ p \in Target /\ p.d1 = c /\ SameStore(p, s.t) /\ p.pb = s.t.pb /\ p.x = s.t.x
      /\ p.halted = s.t.halted /\ p.auto = s.t.auto /\ p.cmd = s.t.cmd
  BY <1>0, <1>4 DEF Target, SameStore
<1> HIDE DEF p
<1>6. /\ q \in Target /\ q.d1 = c /\ q.d0 = v /\ q.mem = s.t.mem
      /\ q.stray = s.t.stray /\ q.auto = s.t.auto /\ q.cmd = s.t.cmd
      /\ StoreLoaded(q, Tail(flash)) /\ FlashSet(q) /\ q.halted
  <2>1. /\ q \in Target /\ q.d1 = p.d1 /\ q.d0 = v /\ SameStore(q, p) /\ q.pb = p.pb
        /\ q.x = p.x /\ q.halted = p.halted /\ q.auto = p.auto /\ q.cmd = p.cmd
    BY <1>5 DEF Target, SameStore
  <2> HIDE DEF q
  <2> QED
    BY <1>2, <1>5, <2>1 DEF SameStore, StoreLoaded, MailboxSet, FlashSet
<1> HIDE DEF q
<1>7. LET e == Execute(q) IN
      /\ e.stray = q.stray
      /\ ~e.err => /\ ~q.err /\ q.d1 \in Addr /\ e.d1 = After(q.d1)
                   /\ e.mem = [q.mem EXCEPT ![q.d1] = q.d0]
  BY <1>0, <1>6, ExecuteStores
<1>8. LET e == RunSequence(q) IN
      /\ e.stray = q.stray
      /\ ~e.err => /\ ~q.err /\ q.d1 \in Addr /\ e.d1 = After(q.d1)
                   /\ e.mem = [q.mem EXCEPT ![q.d1] = q.d0]
  BY <1>0, <1>6, RunStores
<1>9. u = Execute(q) \/ u = RunSequence(q) \/ u = SetAuto(Execute(q), TRUE)
  <2>1. CASE s.no_autoexec
    <3>1. ~q.auto
      BY <1>0, <1>2, <1>6, <2>1
    <3> QED
      BY <1>1, <1>3, <2>1, <3>1
  <2>2. CASE ~s.no_autoexec /\ d.statetag # "WRSQ"
    <3>1. ~q.auto
      BY <1>2, <1>6, <2>2
    <3> QED
      BY <1>1, <1>3, <2>2, <3>1
  <2>3. CASE ~s.no_autoexec /\ d.statetag = "WRSQ"
    <3>1. q.auto /\ q.cmd = "run"
      BY <1>2, <1>6, <2>3
    <3> QED
      BY <1>1, <1>3, <2>3, <3>1
  <2> QED
    BY <2>1, <2>2, <2>3
<1>10. Execute(q) \in Target
  BY <1>6, ExecuteType
<1>11. LET e == SetAuto(Execute(q), TRUE) IN
       SameStore(e, Execute(q)) /\ e.d1 = Execute(q).d1 /\ e.err = Execute(q).err
  BY <1>10, SetAutoKeeps
<1>12. /\ u.stray = s.t.stray
       /\ ~u.err => u.d1 = After(c) /\ u.mem = [s.t.mem EXCEPT ![c] = v]
  BY <1>6, <1>7, <1>8, <1>9, <1>11 DEF SameStore
<1> QED
  BY <1>12 DEF u, c, flash

\* WriteWord leaves the cursor known or marked as unknown, runs nothing but the
\* store, and stores the word at its address and nowhere else whenever the
\* cursor was known and no error came up.
LEMMA WriteWordCursor ==
  ASSUME NEW d, Good(d), NEW sn, Cursor(d, sn), NEW a \in Addr, NEW v \in Value,
         NEW glitch \in Glitches
  PROVE  LET r == WriteWordKnown(d, a, v, glitch) IN
         /\ r.dev.statetag = "WRSQ" /\ \A any : Cursor(r.dev, any)
         /\ r.dev.setup => r.dev.t.stray = d.t.stray
         /\ r.exact => r.dev.setup /\ r.dev.t.mem = [d.t.mem EXCEPT ![a] = v]
<1> DEFINE flash == a \in FlashAddrs
           hit == StoreHits(d, flash)
           at == hit /\ a = d.currentstateval
           s == IF hit THEN d ELSE LoadStore(d, flash, glitch)
           c == IF at THEN s.t.d1 ELSE a
           u == RunStore(d, s, a, v)
           n == NextCursor(d, a, flash)
           b == ~u.err /\ (hit => d.sync /\ a = d.currentstateval)
           t == IF flash THEN DoneTarget(u, glitch) ELSE u
           e == [s EXCEPT !.statetag = "WRSQ", !.lastwriteflags = flash,
                          !.currentstateval = n, !.sync = b, !.t = t]
           r == WriteWordKnown(d, a, v, glitch)
<1>0. d \in Device /\ Truthful(d) /\ flash \in BOOLEAN
  BY DEF Good
<1>1. r = Result(e, IF flash THEN DoneStatus(u, glitch) ELSE "ok", v,
                 s.setup /\ ~u.err /\ (at => d.sync))
  BY DEF WriteWordKnown, StoreResult
<1>2. s \in Device /\ StoreArmed(s, d, flash) /\ SameStore(s.t, d.t)
  <2>1. s \in Device /\ StoreArmed(s, d, flash)
    BY <1>0, StorePlaced
  <2>2. SameStore(s.t, d.t)
    BY <1>0, LoadStoreQuiet DEF SameStore
  <2> QED
    BY <2>1, <2>2
<1>3. s.setup => /\ u.stray = s.t.stray
                 /\ ~u.err => u.d1 = After(c) /\ u.mem = [s.t.mem EXCEPT ![c] = v]
  BY <1>0, <1>2, RunStoreOnce
<1>4. hit => s = d /\ d.statetag = "WRSQ"
  BY DEF StoreHits
<1>5. n = After(IF hit THEN d.currentstateval ELSE a)
  BY DEF NextCursor
<1>6. flash \in BOOLEAN /\ b \in BOOLEAN
  OBVIOUS
<1> HIDE DEF s, u, n, b, hit, flash
<1>7. /\ e.statetag = "WRSQ" /\ e.setup = s.setup /\ e.sync = b /\ e.t = t
      /\ e.currentstateval = n
  BY <1>2 DEF Device
<1>8. /\ t.stray = u.stray /\ t.mem = u.mem /\ t.d1 = u.d1 /\ (~u.err => ~t.err)
      \/ u \notin Target
  BY DEF DoneTarget, Target
<1>9. u \in Target
  <2> DEFINE p == [s.t EXCEPT !.d1 = c]
             w == PutData0(p, v)
  <2>1. s.t \in Target
    BY <1>2, DeviceParts
  <2>2. c \in Addr \cup {Junk}
    BY <2>1 DEF Target
  <2>3. u = IF s.no_autoexec THEN Execute(w)
            ELSE IF d.statetag # "WRSQ" THEN SetAuto(Execute(w), TRUE) ELSE w
    BY <2>1 DEF RunStore, u, hit, flash, Target
  <2> HIDE DEF c
  <2>4. p \in Target
    BY <2>1, <2>2 DEF Target
  <2> HIDE DEF p
  <2>5. w \in Target
    BY <2>4, PutData0Type
  <2> HIDE DEF w
  <2>6. Execute(w) \in Target /\ SetAuto(Execute(w), TRUE) \in Target
    BY <2>5, ExecuteType, SetAutoType
  <2> QED
    BY <2>3, <2>5, <2>6
<1> HIDE DEF t, e
<1>10. ASSUME s.setup, at => d.sync PROVE c = a
  <2>1. CASE at
    BY <1>4, <1>10, <2>1 DEF Cursor
  <2>2. CASE ~at
    BY <2>2
  <2> QED
    BY <2>1, <2>2
<1> HIDE DEF c
<1>11. /\ r.dev = e /\ r.exact = (s.setup /\ ~u.err /\ (at => d.sync))
  BY <1>1 DEF Result
<1> HIDE DEF r
<1>12. ASSUME NEW any PROVE Cursor(e, any)
  <2>1. SUFFICES ASSUME s.setup, b PROVE ~t.err /\ t.d1 = n
    BY <1>7 DEF Cursor
  <2>2. ~u.err /\ (hit => d.sync /\ a = d.currentstateval)
    BY <2>1 DEF b
  <2>3. c = a /\ n = After(a)
    BY <1>5, <1>10, <2>1, <2>2
  <2> QED
    BY <1>3, <1>8, <1>9, <2>1, <2>2, <2>3
<1>13. ASSUME r.exact PROVE s.setup /\ t.mem = [d.t.mem EXCEPT ![a] = v]
  BY <1>2, <1>3, <1>8, <1>9, <1>10, <1>11, <1>13 DEF SameStore
<1>14. s.setup => t.stray = d.t.stray
  BY <1>2, <1>3, <1>8, <1>9 DEF SameStore
<1> QED
  BY <1>7, <1>11, <1>12, <1>13, <1>14 DEF r

-----------------------------------------------------------------------------
(***************************************************************************)
(* The other calls either void the tag of the sequence programs or say     *)
(* that the cursor is not known; identification ends with a ReadWord.      *)
(***************************************************************************)
\* Under another tag, after a disturbance or with the cursor marked as unknown,
\* nothing is claimed.
LEMMA QuietCursor ==
  ASSUME NEW d, NEW sn, d.statetag \notin SequenceTags \/ ~d.setup \/ ~d.sync
  PROVE  Cursor(d, sn)
BY DEF Cursor, SequenceTags

\* What the ghost remembers beyond the present values does no harm.
LEMMA MoreSeen ==
  ASSUME NEW d, NEW sn, NEW more, Cursor(d, sn), \A a \in StatusAddrs : sn[a] \subseteq more[a]
  PROVE  Cursor(d, more)
BY DEF Cursor

\* The present values alone are fresh.
LEMMA StatusOfIsFresh == ASSUME NEW d PROVE Fresh(d, StatusOf(d))
BY DEF Fresh, StatusOf

\* The CH5xx flash programs leave a tag under which the cursor claims nothing.
LEMMA FlashOpCursor ==
  ASSUME NEW d, Good(d), NEW op \in FlashTags, NEW glitch \in Glitches, NEW sn
  PROVE  Cursor(FlashOp(d, op, glitch).dev, sn)
<1> DEFINE l == LoadFlash(d, op)
           t == FlashOp(d, op, glitch).dev.t
           e == [l EXCEPT !.t = t]
<1>0. d \in Device
  BY DEF Good
<1>1. l \in Device /\ l.statetag = op
  BY <1>0, LoadFlashArmed
<1>2. FlashOp(d, op, glitch).dev = e
  BY <1>1 DEF FlashOp, Result, Device
<1> HIDE DEF l, t
<1>3. e.statetag = op
  BY <1>1 DEF Device
<1> HIDE DEF e
<1>4. op \notin SequenceTags
  BY DEF FlashTags, SequenceTags
<1> QED
  BY <1>2, <1>3, <1>4, QuietCursor

\* Looking for the interface changes neither the cursor nor the memory.
LEMMA InitializeCursor ==
  ASSUME NEW d \in Device, NEW found \in BOOLEAN, NEW trap \in BOOLEAN, NEW sn, Cursor(d, sn)
  PROVE  LET e == InitializeSWDSWIOOf(d, found, trap) IN
         Cursor(e, sn) /\ SameStore(e.t, d.t) /\ e.statetag = d.statetag
<1> DEFINE clears == found /\ trap /\ d.t.kind \in TwoWireKinds
           t == [d.t EXCEPT !.err = IF clears THEN FALSE ELSE @]
           e == [d EXCEPT !.target_chip_type = Unknown, !.opmode = found, !.t = t]
<1>1. InitializeSWDSWIOOf(d, found, trap) = e
  BY DEF InitializeSWDSWIOOf
<1>2. /\ t.d0 = d.t.d0 /\ t.d1 = d.t.d1 /\ SameStore(t, d.t) /\ (~d.t.err => ~t.err)
  BY DeviceParts DEF Target, SameStore
<1> HIDE DEF t
<1>3. /\ e.t = t /\ e.statetag = d.statetag /\ e.setup = d.setup /\ e.sync = d.sync
      /\ e.currentstateval = d.currentstateval /\ e.no_autoexec = d.no_autoexec
      /\ e.autoincrement = d.autoincrement
  BY DEF Device
<1> HIDE DEF e
<1>4. Cursor(e, sn)
  BY <1>2, <1>3 DEF Cursor, SameStore
<1> QED
  BY <1>1, <1>2, <1>3, <1>4

\* ch5xx_set_clock leaves the cursor known or marked as unknown, whichever of
\* its accesses it gets to.
LEMMA SetClockCursor ==
  ASSUME NEW d, Good(d), Cursor(d, StatusOf(d)), NEW outcome \in Outcomes
  PROVE  LET e == SetClock(d, outcome) IN Cursor(e, StatusOf(e))
<1> DEFINE r == ReadWordKnown(d, ClockAddr, "none").dev
           b == WriteSafe(r, ClockAddr, Junk, "5WBS", "none").dev
           h == WriteSafe(b, ClockAddr, Junk, "5WHS", "none").dev
           w == WriteWordKnown(b, ClockAddr, Junk, "none").dev
<1>1. /\ ClockAddr \in Addr /\ "none" \in Glitches /\ Junk \in Value
      /\ "5WBS" \in SafeTags /\ "5WHS" \in SafeTags
  BY DebugLinkAssumption, GlitchAssumption, JunkIsValue DEF SafeTags
<1>2. Good(r) /\ Cursor(r, StatusOf(d)) /\ (r.setup => SameStore(r.t, d.t))
  BY <1>1, ReadWordKnownGood, ReadWordCursor, StatusOfIsFresh
<1> HIDE DEF r
<1>3. Cursor(r, StatusOf(r))
  <2>1. CASE r.setup
    <3>1. StatusOf(r) = StatusOf(d)
      BY <1>2, <2>1 DEF StatusOf, SameStore
    <3> QED
      BY <1>2, <3>1
  <2>2. CASE ~r.setup
    BY <2>2, QuietCursor
  <2> QED
    BY <2>1, <2>2
<1>4. Good(b) /\ \A any : Cursor(b, any)
  <2>1. ~b.sync
    BY <1>2 DEF Good, WriteSafe, Result, Device
  <2> QED
    BY <1>1, <1>2, <2>1, WriteSafeGood, QuietCursor
<1> HIDE DEF b
<1>5. \A any : Cursor(h, any)
  <2>1. ~h.sync
    BY <1>4 DEF Good, WriteSafe, Result, Device
  <2> QED
    BY <2>1, QuietCursor
<1>6. \A any : Cursor(w, any)
  BY <1>1, <1>4, WriteWordCursor
<1> HIDE DEF h, w
<1>7. \/ SetClock(d, outcome) = r \/ SetClock(d, outcome) = b
      \/ SetClock(d, outcome) = h \/ SetClock(d, outcome) = w
  BY DEF SetClock, ClockWritten, r, b, h, w
<1> QED
  BY <1>3, <1>4, <1>5, <1>6, <1>7

\* DetermineChipTypeAndSectorInfo: when it gives up, neither cursor nor memory
\* has changed; otherwise the cursor is known as of the memory there is now.
LEMMA IdentifyCursor ==
  ASSUME NEW d, Good(d), NEW sn, Cursor(d, sn), NEW outcome \in Outcomes
  PROVE  LET e == Identify(d, outcome) IN
         IF outcome \in Failures
         THEN Cursor(e, sn) /\ e.t.mem = d.t.mem /\ e.statetag = d.statetag
         ELSE Cursor(e, StatusOf(e))
<1> DEFINE s == Attach(d, outcome)
           p == Probe(s, outcome # "unrecognised")
<1>0. d \in Device
  BY DEF Good
<1>1. Good(s) /\ Cursor(s, sn) /\ s.t.mem = d.t.mem /\ s.statetag = d.statetag
  <2>1. CASE d.opmode
    BY <2>1 DEF Attach
  <2>2. CASE ~d.opmode
    <3> DEFINE found == outcome # "not_found"
    <3>1. s = InitializeSWDSWIOOf(d, found, TRUE) /\ found \in BOOLEAN
      BY <2>2 DEF Attach
    <3> HIDE DEF found, s
    <3> QED
      BY <1>0, <3>1, InitializeSWDSWIOGood, InitializeCursor DEF SameStore
  <2> QED
    BY <2>1, <2>2
<1> HIDE DEF s
<1>2. Good(p) /\ Cursor(p, StatusOf(p))
  <2>1. p.statetag = "XXXX"
    BY <1>1 DEF Good, Probe, Device
  <2>2. "XXXX" \notin SequenceTags
    BY DEF SequenceTags
  <2>3. Good(p)
    BY <1>1, ProbeGood DEF Good
  <2> HIDE DEF p
  <2> QED
    BY <2>1, <2>2, <2>3, QuietCursor
<1> HIDE DEF p
<1>3. LET e == SetClock(p, outcome) IN Cursor(e, StatusOf(e))
  BY <1>2, SetClockCursor
<1> DEFINE i == Identify(d, outcome)
<1>4. ASSUME outcome \in Failures
      PROVE  Cursor(i, sn) /\ i.t.mem = d.t.mem /\ i.statetag = d.statetag
  <2>1. i = s
    BY <1>4 DEF Identify, s
  <2> QED
    BY <1>1, <2>1
<1>5. ASSUME outcome \notin Failures PROVE Cursor(i, StatusOf(i))
  <2>1. i = p \/ i = SetClock(p, outcome)
    BY <1>5 DEF Identify, s, p
  <2> HIDE DEF i
  <2> QED
    BY <1>2, <1>3, <2>1
<1> QED
  BY <1>4, <1>5

\* A call that had to identify the chip goes on with a void tag, any other with
\* the device it was made on.
LEMMA IdentifiedCursor ==
  ASSUME NEW d, Good(d), NEW needed \in BOOLEAN, NEW outcome \in Outcomes
  PROVE  /\ ~needed => Identified(d, needed, outcome) = d
         /\ needed => \A any : Cursor(Identified(d, needed, outcome), any)
<1>1. ASSUME needed, NEW any PROVE Cursor(Identified(d, needed, outcome), any)
  <2> DEFINE i == Identify(d, outcome)
             e == [i EXCEPT !.statetag = "XXXX"]
  <2>1. i \in Device
    BY IdentifyGood DEF Good
  <2>2. Identified(d, needed, outcome) = e
    BY <1>1 DEF Identified
  <2> HIDE DEF i
  <2>3. e.statetag = "XXXX"
    BY <2>1 DEF Device
  <2>4. "XXXX" \notin SequenceTags
    BY DEF SequenceTags
  <2> HIDE DEF e
  <2> QED
    BY <2>2, <2>3, <2>4, QuietCursor
<1> QED
  BY <1>1 DEF Identified

\* The device a call leaves when no interface was found makes no claim.
LEMMA SentCursor ==
  ASSUME NEW d \in Device, NEW r, r.dev \in Device, NEW status, NEW sn
  PROVE  /\ d.opmode => Sent(d, r, status) = r
         /\ ~d.opmode => /\ Cursor(Sent(d, r, status).dev, sn)
                         /\ ~Sent(d, r, status).dev.setup
                         /\ ~Sent(d, r, status).exact
                         /\ Sent(d, r, status).dev.t = d.t
                         /\ Sent(d, r, status).status = status
<1>1. CASE d.opmode
  BY <1>1 DEF Sent
<1>2. CASE ~d.opmode
  <2> DEFINE e == [r.dev EXCEPT !.t = d.t, !.setup = FALSE, !.sync = FALSE]
  <2>1. ~e.setup /\ e.t = d.t
    BY DEF Device
  <2>2. Sent(d, r, status) = Result(e, status, Junk, FALSE)
    BY <1>2 DEF Sent
  <2> HIDE DEF e
  <2>3. Cursor(e, sn)
    BY <2>1, QuietCursor
  <2> QED
    BY <1>2, <2>1, <2>2, <2>3 DEF Result
<1> QED
  BY <1>1, <1>2

\* ReadWord, identification included.
LEMMA ReadWordOfCursor ==
  ASSUME NEW d, Good(d), NEW sn, Cursor(d, sn), Fresh(d, sn), NEW a \in Addr,
         NEW outcome \in Outcomes, NEW glitch \in Glitches
  PROVE  LET r == ReadWordOf(d, a, outcome, glitch) IN
         IF ReadNeedsChip(d, a)
         THEN /\ \/ Cursor(r.dev, StatusOf(r.dev))
                 \/ Cursor(r.dev, sn) /\ r.dev.t.mem = d.t.mem
              /\ r.exact /\ r.status = "ok" =>
                   Answers(r.dev.t.mem, StatusOf(r.dev), a, r.word)
         ELSE /\ Cursor(r.dev, sn)
              /\ r.dev.setup => SameStore(r.dev.t, d.t)
              /\ r.exact /\ r.status = "ok" =>
                   r.dev.setup /\ Answers(d.t.mem, sn, a, r.word)
<1> DEFINE needed == ReadNeedsChip(d, a)
           s == Identified(d, needed, outcome)
           o == ReadWordKnown(s, a, glitch)
           r == ReadWordOf(d, a, outcome, glitch)
<1>0. needed \in BOOLEAN
  BY DEF ReadNeedsChip
<1>1. Good(s) /\ s \in Device
  BY <1>0, IdentifiedGood DEF Good
<1>2. /\ ~needed => s = d
      /\ needed => \A any : Cursor(s, any)
  BY <1>0, IdentifiedCursor
<1>3. /\ GivesUp(needed, outcome) => r = Refused(d, outcome)
      /\ ~GivesUp(needed, outcome) => r = Sent(s, o, "link")
  BY DEF ReadWordOf
<1> HIDE DEF s, r, needed
<1>4. Good(o.dev) /\ o.dev \in Device
  BY <1>1, ReadWordKnownGood DEF Good
<1> DEFINE seenby == IF needed THEN StatusOf(s) ELSE sn
<1>5. Cursor(s, seenby) /\ Fresh(s, seenby)
  BY <1>2, StatusOfIsFresh
<1> HIDE DEF seenby
<1>6. /\ Cursor(o.dev, seenby)
      /\ o.dev.setup => SameStore(o.dev.t, s.t)
      /\ o.exact /\ o.status = "ok" => o.dev.setup /\ Answers(s.t.mem, seenby, a, o.word)
  BY <1>1, <1>5, ReadWordCursor
<1> HIDE DEF o
<1>7. CASE GivesUp(needed, outcome)
  <2> DEFINE i == Identify(d, outcome)
  <2>1. needed /\ outcome \in Failures
    BY <1>7 DEF GivesUp
  <2>2. r.dev = i /\ ~r.exact
    BY <1>3, <1>7 DEF Refused, Result
  <2>3. Cursor(i, sn) /\ i.t.mem = d.t.mem
    BY <2>1, IdentifyCursor
  <2> HIDE DEF i
  <2> QED
    BY <2>1, <2>2, <2>3 DEF r, needed
<1>8. CASE ~GivesUp(needed, outcome) /\ ~s.opmode
  <2>1. r = Sent(s, o, "link")
    BY <1>3, <1>8
  <2>2. ~r.dev.setup /\ ~r.exact
    BY <1>1, <1>4, <1>8, <2>1, SentCursor
  <2>3. \A any : Cursor(r.dev, any)
    BY <2>2, QuietCursor
  <2> QED
    BY <2>2, <2>3 DEF r, needed
<1>9. CASE ~GivesUp(needed, outcome) /\ s.opmode
  <2>1. r = o
    BY <1>1, <1>3, <1>4, <1>9, SentCursor
  <2>2. CASE ~needed
    BY <1>2, <1>6, <2>1, <2>2 DEF seenby, r, needed
  <2>3. CASE needed
    <3>1. CASE o.dev.setup
      <4>1. StatusOf(o.dev) = StatusOf(s) /\ o.dev.t.mem = s.t.mem
        BY <1>6, <3>1 DEF StatusOf, SameStore
      <4> QED
        BY <1>6, <2>1, <2>3, <4>1 DEF seenby, r, needed
    <3>2. CASE ~o.dev.setup
      BY <1>6, <2>1, <2>3, <3>2, QuietCursor DEF r, needed
    <3> QED
      BY <3>1, <3>2
  <2> QED
    BY <2>2, <2>3
<1> QED
  BY <1>7, <1>8, <1>9

\* WriteWord, identification included.
LEMMA WriteWordOfCursor ==
  ASSUME NEW d, Good(d), NEW sn, Cursor(d, sn), NEW a \in Addr, NEW v \in Value,
         NEW outcome \in Outcomes, NEW glitch \in Glitches
  PROVE  LET r == WriteWordOf(d, a, v, outcome, glitch) IN
         /\ \A any : Cursor(r.dev, any)
         /\ r.exact => /\ r.dev.t.mem[a] = v
                       /\ StoreNeedsChip(d) \/ r.dev.t.mem = [d.t.mem EXCEPT ![a] = v]
         /\ r.dev.setup => StoreNeedsChip(d) \/ r.dev.t.stray = d.t.stray
<1> DEFINE q == IF StoreNeedsChip(d) /\ d.opmode
                THEN [d EXCEPT !.t = SetAuto(d.t, FALSE)] ELSE d
           s == Identified(q, StoreNeedsChip(d), outcome)
           o == WriteWordKnown(s, a, v, glitch)
           status == IF a \in FlashAddrs THEN "link" ELSE "ok"
           r == WriteWordOf(d, a, v, outcome, glitch)
<1>0. d \in Device
  BY DEF Good
<1>1. /\ Good(q) /\ StoreNeedsChip(q) = StoreNeedsChip(d) /\ q.statetag = d.statetag
      /\ ~StoreNeedsChip(d) => q = d
  <2>1. CASE StoreNeedsChip(d) /\ d.opmode
    <3> DEFINE t == SetAuto(d.t, FALSE)
    <3>0. d.t \in Target /\ d.statetag \notin SequenceTags /\ Truthful(d)
      BY <2>1, DeviceParts DEF Good, StoreNeedsChip
    <3>1. t \in Target /\ ~t.auto /\ t.pb = d.t.pb /\ t.x = d.t.x
      BY <3>0, SetAutoType
    <3>2. q = [d EXCEPT !.t = t]
      BY <2>1
    <3> HIDE DEF t, q
    <3>3. /\ q \in Device /\ q.t = t /\ q.statetag = d.statetag /\ q.setup = d.setup
          /\ q.target_chip_type = d.target_chip_type
      BY <1>0, <3>1, <3>2 DEF Device
    <3>4. Truthful(q)
      BY <3>0, <3>1, <3>3 DEF Truthful, Program, SequenceTags
    <3> QED
      BY <2>1, <3>3, <3>4 DEF Good, StoreNeedsChip
  <2>2. CASE ~(StoreNeedsChip(d) /\ d.opmode)
    BY <2>2
  <2> QED
    BY <2>1, <2>2
<1>2. /\ GivesUp(StoreNeedsChip(d), outcome) => r = Refused(q, outcome)
      /\ ~GivesUp(StoreNeedsChip(d), outcome) => r = Sent(s, o, status)
  BY DEF WriteWordOf
<1> HIDE DEF q, r
<1>3. Good(s) /\ s \in Device
  <2>1. StoreNeedsChip(d) \in BOOLEAN
    BY DEF StoreNeedsChip
  <2> QED
    BY <1>1, <2>1, IdentifiedGood DEF Good
<1>4. /\ ~StoreNeedsChip(d) => s = d
      /\ StoreNeedsChip(d) => \A any : Cursor(s, any)
  <2>1. StoreNeedsChip(d) \in BOOLEAN
    BY DEF StoreNeedsChip
  <2> QED
    BY <1>1, <2>1, IdentifiedCursor
<1> HIDE DEF s
<1>5. Good(o.dev) /\ o.dev \in Device
  BY <1>3, WriteWordKnownGood DEF Good
<1>6. /\ \A any : Cursor(o.dev, any)
      /\ o.dev.setup => o.dev.t.stray = s.t.stray
      /\ o.exact => o.dev.t.mem = [s.t.mem EXCEPT ![a] = v]
  BY <1>3, <1>4, WriteWordCursor
<1> HIDE DEF o
<1>7. CASE GivesUp(StoreNeedsChip(d), outcome)
  <2> DEFINE i == Identify(q, outcome)
  <2>1. StoreNeedsChip(d) /\ outcome \in Failures
    BY <1>7 DEF GivesUp
  <2>2. r.dev = i /\ ~r.exact
    BY <1>2, <1>7 DEF Refused, Result
  <2>3. i.statetag = d.statetag /\ d.statetag \notin SequenceTags
    <3>1. Cursor(q, sn)
      BY <1>1, <2>1, QuietCursor DEF StoreNeedsChip
    <3> QED
      BY <1>1, <2>1, <3>1, IdentifyCursor DEF StoreNeedsChip
  <2> HIDE DEF i
  <2>4. \A any : Cursor(i, any)
    BY <2>3, QuietCursor
  <2> QED
    BY <2>1, <2>2, <2>4 DEF r
<1>8. CASE ~GivesUp(StoreNeedsChip(d), outcome) /\ ~s.opmode
  <2>1. r = Sent(s, o, status)
    BY <1>2, <1>8
  <2> HIDE DEF status
  <2>2. ~r.dev.setup /\ ~r.exact
    BY <1>3, <1>5, <1>8, <2>1, SentCursor
  <2>3. \A any : Cursor(r.dev, any)
    BY <2>2, QuietCursor
  <2> QED
    BY <2>2, <2>3 DEF r
<1>9. CASE ~GivesUp(StoreNeedsChip(d), outcome) /\ s.opmode
  <2>1. r = Sent(s, o, status)
    BY <1>2, <1>9
  <2> HIDE DEF status
  <2>2. r = o
    BY <1>3, <1>5, <1>9, <2>1, SentCursor
  <2>3. s.t.mem \in [Addr -> Value]
    BY <1>3, DeviceParts DEF Target
  <2>4. o.exact => o.dev.t.mem[a] = v
    BY <1>6, <2>3
  <2> QED
    BY <1>4, <1>6, <2>2, <2>4 DEF r
<1> QED
  BY <1>7, <1>8, <1>9

-----------------------------------------------------------------------------
(***************************************************************************)
(* Every action keeps the cursor known.  The ghost has to know at least    *)
(* the present values of the status registers.                             *)
(***************************************************************************)
CursorInv == Inv /\ CursorInStep /\ Fresh(dev, seen)

\* CursorInStep says of the present device and ghost what Cursor says of any.
LEMMA CursorIsInStep == CursorInv => Cursor(dev, seen) /\ Fresh(dev, seen) /\ Good(dev)
BY InvIsGood DEF CursorInv, CursorInStep, Cursor

\* A call whose claims hold of the memory it leaves, or that changed nothing and
\* keeps the claims that were made, keeps the invariant.
LEMMA BecomesCursor ==
  ASSUME CursorInv, Inv', NEW d, NEW stores, Becomes(d, stores),
         Cursor(d, StatusOf(d)) \/ (~stores /\ d.t.mem = dev.t.mem /\ Cursor(d, seen))
  PROVE  CursorInv'
<1>1. dev' = d
  BY DEF Becomes
<1>2. Cursor(d, seen') /\ Fresh(d, seen')
  <2>1. CASE stores \/ d.t.mem # dev.t.mem
    <3>1. seen' = StatusOf(d)
      BY <2>1 DEF Becomes
    <3> QED
      BY <2>1, <3>1, StatusOfIsFresh
  <2>2. CASE ~stores /\ d.t.mem = dev.t.mem
    <3>1. seen' = seen
      BY <2>2 DEF Becomes
    <3>2. Fresh(d, seen)
      BY <2>2 DEF CursorInv, Fresh
    <3>3. \A a \in StatusAddrs : StatusOf(d)[a] \subseteq seen[a]
      BY <3>2 DEF Fresh, StatusOf
    <3>4. Cursor(d, seen)
      BY <2>2, <3>3, MoreSeen
    <3> QED
      BY <3>1, <3>2, <3>4
  <2> QED
    BY <2>1, <2>2
<1> QED
  BY <1>1, <1>2 DEF CursorInv, CursorInStep, Cursor, Fresh

\* The same for a call that may not have been sent.
LEMMA SentKeepsCursor ==
  ASSUME CursorInv, Inv', NEW r, r.dev \in Device, \A any : Cursor(r.dev, any), NEW status,
         NEW stores, Becomes(Sent(dev, r, status).dev, stores)
  PROVE  CursorInv'
<1> DEFINE e == Sent(dev, r, status).dev
<1>1. dev \in Device
  BY CursorIsInStep DEF Good
<1>2. Cursor(e, StatusOf(e))
  <2>1. CASE dev.opmode
    <3>1. e = r.dev
      BY <1>1, <2>1, SentCursor
    <3> QED
      BY <3>1
  <2>2. CASE ~dev.opmode
    <3>1. ~e.setup
      BY <1>1, <2>2, SentCursor
    <3> HIDE DEF e
    <3> QED
      BY <3>1, QuietCursor
  <2> QED
    BY <2>1, <2>2
<1> HIDE DEF e
<1> QED
  BY <1>2, BecomesCursor DEF e

\* ReadWord.
LEMMA ReadWordKeepsCursor ==
  ASSUME CursorInv, Inv', NEW a \in Addr, ReadWord(a)
  PROVE  CursorInv'
<1>1. PICK outcome \in IdentificationsOf(dev, ReadNeedsChip(dev, a)), glitch \in Glitches :
        Becomes(ReadWordOf(dev, a, outcome, glitch).dev, FALSE)
  BY DEF ReadWord
<1> DEFINE e == ReadWordOf(dev, a, outcome, glitch).dev
<1>2. outcome \in Outcomes
  BY IdentificationsAreOutcomes
<1>4. IF ReadNeedsChip(dev, a)
      THEN Cursor(e, StatusOf(e)) \/ (Cursor(e, seen) /\ e.t.mem = dev.t.mem)
      ELSE Cursor(e, seen) /\ (e.setup => SameStore(e.t, dev.t))
  BY <1>2, CursorIsInStep, ReadWordOfCursor
<1> HIDE DEF e
<1>5. Cursor(e, StatusOf(e)) \/ (e.t.mem = dev.t.mem /\ Cursor(e, seen))
  <2>1. CASE ReadNeedsChip(dev, a)
    BY <1>4, <2>1
  <2>2. CASE ~ReadNeedsChip(dev, a) /\ e.setup
    BY <1>4, <2>2 DEF SameStore
  <2>3. CASE ~e.setup
    BY <2>3, QuietCursor
  <2> QED
    BY <2>1, <2>2, <2>3
<1> QED
  BY <1>1, <1>5, BecomesCursor DEF e

\* The calls that change nothing the cursor depends on.
LEMMA IdleKeepsCursor ==
  ASSUME CursorInv, Inv',
         WaitForDoneOp \/ ResetInternalProgrammingState \/ InitializeSWDSWIO
           \/ OverrideChip \/ RawProgbuf \/ RawRegister \/ PowerCycle
  PROVE  CursorInv'
<1>0. dev \in Device /\ dev.t \in Target /\ Good(dev) /\ Cursor(dev, seen)
  BY CursorIsInStep, DeviceParts DEF Good
<1>1. CASE WaitForDoneOp
  <2> DEFINE t == [dev.t EXCEPT !.err = FALSE]
             e == [dev EXCEPT !.t = t]
  <2>1. Becomes(e, FALSE)
    BY <1>1 DEF WaitForDoneOp
  <2>2. /\ SameStore(t, dev.t) /\ t.d0 = dev.t.d0 /\ t.d1 = dev.t.d1 /\ ~t.err
    BY <1>0 DEF Target, SameStore
  <2> HIDE DEF t
  <2>3. /\ e.t = t /\ e.statetag = dev.statetag /\ e.setup = dev.setup
        /\ e.sync = dev.sync /\ e.currentstateval = dev.currentstateval
        /\ e.no_autoexec = dev.no_autoexec /\ e.autoincrement = dev.autoincrement
    BY <1>0 DEF Device
  <2> HIDE DEF e
  <2>4. Cursor(e, seen) /\ e.t.mem = dev.t.mem
    BY <1>0, <2>2, <2>3 DEF Cursor, SameStore
  <2> QED
    BY <2>1, <2>4, BecomesCursor
<1>2. CASE ResetInternalProgrammingState
  <2> DEFINE e == ResetInternalProgrammingStateOf(dev)
  <2>1. Becomes(e, FALSE) /\ ~e.sync
    BY <1>0, <1>2
    DEF ResetInternalProgrammingState, ResetInternalProgrammingStateOf, Device
  <2> HIDE DEF e
  <2>2. Cursor(e, StatusOf(e))
    BY <2>1, QuietCursor
  <2> QED
    BY <2>1, <2>2, BecomesCursor
<1>3. CASE InitializeSWDSWIO
  <2>1. PICK found \in BOOLEAN, trap \in BOOLEAN :
          Becomes(InitializeSWDSWIOOf(dev, found, trap), FALSE)
    BY <1>3 DEF InitializeSWDSWIO
  <2> DEFINE e == InitializeSWDSWIOOf(dev, found, trap)
  <2>2. Cursor(e, seen) /\ e.t.mem = dev.t.mem
    BY <1>0, InitializeCursor DEF SameStore
  <2> HIDE DEF e
  <2> QED
    BY <2>1, <2>2, BecomesCursor DEF e
<1>4. CASE OverrideChip
  <2>1. PICK kind \in Chips :
          Becomes([dev EXCEPT !.target_chip_type = kind,
                              !.setup = @ /\ dev.statetag # "WRSQ"], FALSE)
    BY <1>4 DEF OverrideChip
  <2> DEFINE e == [dev EXCEPT !.target_chip_type = kind,
                              !.setup = @ /\ dev.statetag # "WRSQ"]
  <2>3. /\ e.t = dev.t /\ e.statetag = dev.statetag /\ (e.setup => dev.setup)
        /\ e.sync = dev.sync /\ e.currentstateval = dev.currentstateval
        /\ e.no_autoexec = dev.no_autoexec /\ e.autoincrement = dev.autoincrement
    BY <1>0 DEF Device
  <2>4. Becomes(e, FALSE)
    BY <2>1
  <2> HIDE DEF e
  <2>5. Cursor(e, seen)
    BY <1>0, <2>3 DEF Cursor
  <2> QED
    BY <2>3, <2>4, <2>5, BecomesCursor
<1>5. CASE RawProgbuf
  <2>1. PICK i \in 0 .. 3 :
          Becomes([dev EXCEPT !.statetag = "XXXX", !.setup = TRUE,
                              !.t.pb[i] = IF dev.opmode THEN "other" ELSE @], FALSE)
    BY <1>5 DEF RawProgbuf
  <2> DEFINE e == [dev EXCEPT !.statetag = "XXXX", !.setup = TRUE,
                              !.t.pb[i] = IF dev.opmode THEN "other" ELSE @]
  <2>2. e.statetag = "XXXX"
    BY <1>0 DEF Device
  <2>3. Becomes(e, FALSE)
    BY <2>1
  <2> HIDE DEF e
  <2>4. Cursor(e, StatusOf(e))
    BY <2>2, QuietCursor DEF SequenceTags
  <2> QED
    BY <2>2, <2>3, <2>4, BecomesCursor
<1>6. CASE RawRegister \/ PowerCycle
  <2>1. PICK stores \in BOOLEAN :
          \E t : Becomes([dev EXCEPT !.t = t, !.setup = FALSE, !.sync = FALSE], stores)
    <3>1. CASE RawRegister
      <4>1. \E t : Becomes([dev EXCEPT !.t = t, !.setup = FALSE, !.sync = FALSE], FALSE)
        BY <3>1 DEF RawRegister
      <4> QED
        BY <4>1
    <3>2. CASE PowerCycle
      <4>1. \E t : Becomes([dev EXCEPT !.t = t, !.setup = FALSE, !.sync = FALSE], TRUE)
        BY <3>2 DEF PowerCycle
      <4> QED
        BY <4>1
    <3> QED
      BY <1>6, <3>1, <3>2
  <2>9. PICK t : Becomes([dev EXCEPT !.t = t, !.setup = FALSE, !.sync = FALSE], stores)
    BY <2>1
  <2> DEFINE e == [dev EXCEPT !.t = t, !.setup = FALSE, !.sync = FALSE]
  <2>2. ~e.setup
    BY <1>0 DEF Device
  <2>3. Becomes(e, stores)
    BY <2>9
  <2> HIDE DEF e
  <2>4. Cursor(e, StatusOf(e))
    BY <2>2, QuietCursor
  <2> QED
    BY <2>3, <2>4, BecomesCursor
<1> QED
  BY <1>1, <1>2, <1>3, <1>4, <1>5, <1>6

\* The calls that void the tag or mark the cursor as unknown.
LEMMA QuietCallsKeepCursor ==
  ASSUME CursorInv, Inv',
         \/ \E a \in Addr : ReadByte(a)
         \/ \E a \in Addr, v \in Words : WriteByte(a, v)
         \/ \E a \in Addr, store \in SafeTags : SafeCall(a, store)
         \/ \E op \in FlashTags : FlashCall(op)
         \/ PollTerminal
  PROVE  CursorInv'
<1>0. Good(dev) /\ dev \in Device
  BY CursorIsInStep DEF Good
<1>1. ASSUME NEW a \in Addr, ReadByte(a) PROVE CursorInv'
  <2>1. PICK glitch \in Glitches :
          Becomes(Sent(dev, ReadByteOf(dev, a, glitch), "link").dev, FALSE)
    BY <1>1 DEF ReadByte
  <2> DEFINE r == ReadByteOf(dev, a, glitch)
  <2>2. r.dev \in Device /\ ~r.dev.sync
    BY <1>0, JunkIsValue, BytesGood DEF Good, ReadByteOf, Result, Device
  <2> HIDE DEF r
  <2>3. \A any : Cursor(r.dev, any)
    BY <2>2, QuietCursor
  <2> QED
    BY <2>1, <2>2, <2>3, SentKeepsCursor DEF r
<1>2. ASSUME NEW a \in Addr, NEW v \in Words, WriteByte(a, v) PROVE CursorInv'
  <2>1. PICK glitch \in Glitches :
          Becomes(Sent(dev, WriteByteOf(dev, a, v, glitch), "link").dev, TRUE)
    BY <1>2 DEF WriteByte
  <2> DEFINE r == WriteByteOf(dev, a, v, glitch)
  <2>2. r.dev \in Device /\ ~r.dev.sync
    <3>1. Good(r.dev)
      BY <1>0, BytesGood DEF Value
    <3> QED
      BY <1>0, <3>1 DEF Good, WriteByteOf, Result, Device
  <2> HIDE DEF r
  <2>3. \A any : Cursor(r.dev, any)
    BY <2>2, QuietCursor
  <2> QED
    BY <2>1, <2>2, <2>3, SentKeepsCursor DEF r
<1>3. ASSUME NEW a \in Addr, NEW store \in SafeTags, SafeCall(a, store)
      PROVE  CursorInv'
  <2>1. PICK glitch \in Glitches :
          Becomes(Sent(dev, WriteSafe(dev, a, Junk, store, glitch), "ok").dev, TRUE)
    BY <1>3 DEF SafeCall
  <2> DEFINE r == WriteSafe(dev, a, Junk, store, glitch)
  <2>2. r.dev \in Device /\ ~r.dev.sync
    <3>1. Good(r.dev)
      BY <1>0, JunkIsValue, WriteSafeGood
    <3> QED
      BY <1>0, <3>1 DEF Good, WriteSafe, Result, Device
  <2> HIDE DEF r
  <2>3. \A any : Cursor(r.dev, any)
    BY <2>2, QuietCursor
  <2> QED
    BY <2>1, <2>2, <2>3, SentKeepsCursor DEF r
<1>4. ASSUME NEW op \in FlashTags, FlashCall(op) PROVE CursorInv'
  <2>1. PICK glitch \in Glitches :
          Becomes(Sent(dev, FlashOp(dev, op, glitch), "ok").dev, FALSE)
    BY <1>4 DEF FlashCall
  <2>2. FlashOp(dev, op, glitch).dev \in Device
    BY <1>0, FlashOpGood DEF Good
  <2>3. \A any : Cursor(FlashOp(dev, op, glitch).dev, any)
    BY <1>0, FlashOpCursor
  <2> HIDE DEF CursorInv
  <2> QED
    BY <2>1, <2>2, <2>3, SentKeepsCursor
<1>5. CASE PollTerminal
  <2>1. PICK ack \in BOOLEAN, both \in BOOLEAN :
          Becomes(Sent(dev, PollTerminalOf(dev, ack, both), "link").dev, FALSE)
    BY <1>5 DEF PollTerminal
  <2> DEFINE r == PollTerminalOf(dev, ack, both)
  <2>2. r.dev \in Device /\ ~r.dev.sync
    <3>1. Good(r.dev)
      BY <1>0, PollTerminalGood
    <3> QED
      BY <1>0, <3>1 DEF Good, PollTerminalOf, Result, Device
  <2> HIDE DEF r
  <2>3. \A any : Cursor(r.dev, any)
    BY <2>2, QuietCursor
  <2> QED
    BY <2>1, <2>2, <2>3, SentKeepsCursor DEF r
<1> QED
  BY <1>1, <1>2, <1>3, <1>4, <1>5

\* Every step of the specification keeps the cursor known.
LEMMA NextKeepsCursor == ASSUME CursorInv, Next PROVE CursorInv'
<1>0. Inv' /\ Good(dev) /\ dev \in Device /\ Cursor(dev, seen)
  BY NextKeepsInv, CursorIsInStep DEF CursorInv, Good
<1>1. ASSUME NEW a \in Addr, NEW v \in Words, WriteWord(a, v) PROVE CursorInv'
  <2>1. PICK outcome \in IdentificationsOf(dev, StoreNeedsChip(dev)), glitch \in Glitches :
          Becomes(WriteWordOf(dev, a, v, outcome, glitch).dev, TRUE)
    BY <1>1 DEF WriteWord
  <2> DEFINE e == WriteWordOf(dev, a, v, outcome, glitch).dev
  <2>2. outcome \in Outcomes /\ v \in Value
    BY IdentificationsAreOutcomes DEF Value
  <2>3. Cursor(e, StatusOf(e))
    BY <1>0, <2>2, WriteWordOfCursor
  <2> HIDE DEF e
  <2> QED
    BY <1>0, <2>1, <2>3, BecomesCursor DEF e
<1>2. CASE DetermineChip
  <2>1. PICK outcome \in Outcomes :
          Becomes(Identify(dev, outcome), outcome \notin Failures)
    BY <1>2 DEF DetermineChip
  <2> DEFINE e == Identify(dev, outcome)
  <2>2. IF outcome \in Failures
        THEN Cursor(e, seen) /\ e.t.mem = dev.t.mem
        ELSE Cursor(e, StatusOf(e))
    BY <1>0, IdentifyCursor
  <2>3. Becomes(e, outcome \notin Failures)
    BY <2>1
  <2> HIDE DEF e
  <2>4. CASE outcome \in Failures
    <3>1. Becomes(e, FALSE)
      BY <2>3, <2>4 DEF Becomes
    <3> QED
      BY <1>0, <2>2, <2>4, <3>1, BecomesCursor
  <2>5. CASE outcome \notin Failures
    BY <1>0, <2>2, <2>3, <2>5, BecomesCursor
  <2> QED
    BY <2>4, <2>5
<1>3. ASSUME NEW a \in StatusAddrs, NEW v \in Value, StatusChange(a, v) PROVE CursorInv'
  <2> DEFINE mem == [dev.t.mem EXCEPT ![a] = v]
             t == [dev.t EXCEPT !.mem = mem]
             e == [dev EXCEPT !.t = t]
  <2>1. dev' = e /\ seen' = [seen EXCEPT ![a] = @ \cup {v}]
    BY <1>3 DEF StatusChange
  <2>2. /\ dev.t.mem \in [Addr -> Value] /\ a \in Addr
        /\ seen \in [StatusAddrs -> SUBSET Value]
    BY <1>0, DeviceParts, DebugLinkAssumption DEF CursorInv, Inv, TypeOK, Target
  <2>3. /\ \A b \in StatusAddrs : mem[b] \in seen'[b]
        /\ \A b \in StatusAddrs : seen[b] \subseteq seen'[b]
    BY <2>1, <2>2, CursorIsInStep, DebugLinkAssumption DEF Fresh
  <2>4. \A b \in Addr \ StatusAddrs : mem[b] = dev.t.mem[b]
    BY <2>2
  <2> HIDE DEF mem
  <2>5. t.mem = mem /\ t.d0 = dev.t.d0 /\ t.d1 = dev.t.d1 /\ t.err = dev.t.err
    BY <1>0, DeviceParts DEF Target
  <2> HIDE DEF t
  <2>6. /\ e.t = t /\ e.statetag = dev.statetag /\ e.setup = dev.setup
        /\ e.sync = dev.sync /\ e.currentstateval = dev.currentstateval
        /\ e.no_autoexec = dev.no_autoexec /\ e.autoincrement = dev.autoincrement
    BY <1>0 DEF Device
  <2> HIDE DEF e
  <2>7. Fresh(e, seen')
    BY <2>3, <2>5, <2>6 DEF Fresh
  <2>8. Cursor(e, seen)
    <3>1. e.setup /\ e.statetag = "RDSQ" => e.currentstateval \in Addr
      BY <1>0, <2>6 DEF Good, Truthful, SequenceTags
    <3> QED
      BY <1>0, <2>4, <2>5, <2>6, <3>1 DEF Cursor
  <2>9. Cursor(e, seen')
    BY <2>3, <2>8, MoreSeen
  <2> QED
    BY <1>0, <2>1, <2>7, <2>9 DEF CursorInv, CursorInStep, Cursor, Fresh
<1> QED
  BY <1>0, <1>1, <1>2, <1>3, ReadWordKeepsCursor, IdleKeepsCursor, QuietCallsKeepCursor
  DEF Next

\* Before the first call nothing is claimed, and the ghost holds the status
\* registers' first values.
LEMMA InitCursor == Init => CursorInv
<1> SUFFICES ASSUME Init PROVE CursorInv
  OBVIOUS
<1>1. Inv
  BY InitInv
<1>2. dev.statetag = "none" /\ seen = StatusOf(dev)
  BY DEF Init
<1>3. Cursor(dev, seen) /\ Fresh(dev, seen)
  BY <1>2, QuietCursor, StatusOfIsFresh DEF SequenceTags
<1> QED
  BY <1>1, <1>3 DEF CursorInv, CursorInStep, Cursor

\* The inductive invariant of the cursor holds in every session.
LEMMA SpecCursorInv == Spec => []CursorInv
<1>1. CursorInv /\ [Next]_vars => CursorInv'
  <2>1. CursorInv /\ UNCHANGED vars => CursorInv'
    BY DEF CursorInv, CursorInStep, Fresh, Inv, TypeOK, TagTellsTheTruth, vars
  <2> QED
    BY <2>1, NextKeepsCursor
<1> QED
  BY InitCursor, <1>1, PTL DEF Spec

-----------------------------------------------------------------------------
(***************************************************************************)
(* What follows for the next call.                                         *)
(***************************************************************************)
\* currentstateval is where the target's cursor stands, and DATA0 holds the word
\* a hit will answer, in every reachable state: the hit paths of ReadWord and
\* WriteWord may skip writing DATA1.
THEOREM CursorIsKnown == Spec => []CursorInStep
<1>1. CursorInv => CursorInStep
  BY DEF CursorInv
<1> QED
  BY <1>1, SpecCursorInv, PTL

\* A ReadWord issued now.
LEMMA ReadNow ==
  ASSUME CursorInv, NEW a \in Addr, NEW glitch \in Glitches,
         LET r == ReadWordOf(dev, a, "unrecognised", glitch)
         IN  r.exact /\ r.status = "ok"
  PROVE  LET r == ReadWordOf(dev, a, "unrecognised", glitch)
         IN  IF ReadNeedsChip(dev, a)
             THEN Answers(r.dev.t.mem, StatusOf(r.dev), a, r.word)
             ELSE r.dev.t.mem = dev.t.mem /\ Answers(dev.t.mem, seen, a, r.word)
<1> DEFINE r == ReadWordOf(dev, a, "unrecognised", glitch)
<1>1. r.exact /\ r.status = "ok"
  OBVIOUS
<1>2. IF ReadNeedsChip(dev, a)
      THEN /\ \/ Cursor(r.dev, StatusOf(r.dev))
              \/ Cursor(r.dev, seen) /\ r.dev.t.mem = dev.t.mem
           /\ r.exact /\ r.status = "ok" =>
                Answers(r.dev.t.mem, StatusOf(r.dev), a, r.word)
      ELSE /\ Cursor(r.dev, seen)
           /\ r.dev.setup => SameStore(r.dev.t, dev.t)
           /\ r.exact /\ r.status = "ok" =>
                r.dev.setup /\ Answers(dev.t.mem, seen, a, r.word)
  <2>1. "unrecognised" \in Outcomes
    BY DEF Outcomes
  <2> QED
    BY <2>1, CursorIsInStep, ReadWordOfCursor
<1> HIDE DEF r
<1>3. IF ReadNeedsChip(dev, a)
      THEN Answers(r.dev.t.mem, StatusOf(r.dev), a, r.word)
      ELSE r.dev.t.mem = dev.t.mem /\ Answers(dev.t.mem, seen, a, r.word)
  BY <1>1, <1>2 DEF SameStore
<1> QED
  BY <1>3 DEF r

\* A ReadWord made in any reachable state that reports success answers the word at
\* its address and changes no memory, whatever was read, written, polled or
\* prefetched before it.
THEOREM ReadsAreRight == Spec => []ReadsWhatIsThere
<1>1. CursorInv => ReadsWhatIsThere
  <2> SUFFICES ASSUME CursorInv, NEW a \in Addr \ StatusAddrs, NEW glitch \in Glitches,
                      LET r == ReadWordOf(dev, a, "unrecognised", glitch)
                      IN  r.exact /\ r.status = "ok"
               PROVE  LET r == ReadWordOf(dev, a, "unrecognised", glitch)
                      IN  /\ r.word = r.dev.t.mem[a]
                          /\ ReadNeedsChip(dev, a) \/ r.dev.t.mem = dev.t.mem
    BY DEF ReadsWhatIsThere
  <2> DEFINE r == ReadWordOf(dev, a, "unrecognised", glitch)
  <2>1. IF ReadNeedsChip(dev, a)
        THEN Answers(r.dev.t.mem, StatusOf(r.dev), a, r.word)
        ELSE r.dev.t.mem = dev.t.mem /\ Answers(dev.t.mem, seen, a, r.word)
    BY ReadNow
  <2> HIDE DEF r
  <2>2. r.word = r.dev.t.mem[a] /\ (ReadNeedsChip(dev, a) \/ r.dev.t.mem = dev.t.mem)
    BY <2>1 DEF Answers
  <2> QED
    BY <2>2 DEF r
<1> QED
  BY <1>1, SpecCursorInv, PTL

\* A status register read in any reachable state is never older than the last store
\* of the programmer, although the word may come from an earlier run of the program:
\* WaitForFlash cannot take the idle state before an erase for the end of it.
THEOREM StatusReadsAreFresh == Spec => []StatusIsFresh
<1>1. CursorInv => StatusIsFresh
  <2> SUFFICES ASSUME CursorInv, NEW a \in StatusAddrs, NEW glitch \in Glitches,
                      LET r == ReadWordOf(dev, a, "unrecognised", glitch)
                      IN  r.exact /\ r.status = "ok"
               PROVE  LET r == ReadWordOf(dev, a, "unrecognised", glitch)
                      IN  r.word \in seen[a] \/ (ReadNeedsChip(dev, a) /\ r.word = r.dev.t.mem[a])
    BY DEF StatusIsFresh
  <2> DEFINE r == ReadWordOf(dev, a, "unrecognised", glitch)
  <2>1. a \in Addr
    BY DebugLinkAssumption
  <2>2. IF ReadNeedsChip(dev, a)
        THEN Answers(r.dev.t.mem, StatusOf(r.dev), a, r.word)
        ELSE r.dev.t.mem = dev.t.mem /\ Answers(dev.t.mem, seen, a, r.word)
    BY <2>1, ReadNow
  <2> HIDE DEF r
  <2>3. r.word \in seen[a] \/ (ReadNeedsChip(dev, a) /\ r.word = r.dev.t.mem[a])
    BY <2>2 DEF Answers, StatusOf
  <2> QED
    BY <2>3 DEF r
<1> QED
  BY <1>1, SpecCursorInv, PTL

\* A WriteWord made in any reachable state stores its word at the address asked for
\* and nowhere else, unless the cursor it hits was left out of step by a fault or by
\* a jump (the ghost "exact").
THEOREM WritesAreRight == Spec => []WritesWhereAsked
<1>1. CursorInv => WritesWhereAsked
  <2> SUFFICES ASSUME CursorInv, NEW a \in Addr, NEW v \in Words, NEW glitch \in Glitches,
                      WriteWordOf(dev, a, v, "unrecognised", glitch).exact
               PROVE  LET r == WriteWordOf(dev, a, v, "unrecognised", glitch)
                      IN  /\ r.dev.t.mem[a] = v
                          /\ \A b \in Addr \ {a} :
                               StoreNeedsChip(dev) \/ r.dev.t.mem[b] = dev.t.mem[b]
    BY DEF WritesWhereAsked
  <2> DEFINE r == WriteWordOf(dev, a, v, "unrecognised", glitch)
  <2>1. r.exact
    OBVIOUS
  <2>2. r.exact => /\ r.dev.t.mem[a] = v
                   /\ StoreNeedsChip(dev) \/ r.dev.t.mem = [dev.t.mem EXCEPT ![a] = v]
    <3>1. "unrecognised" \in Outcomes /\ v \in Value
      BY DEF Outcomes, Value
    <3> QED
      BY <3>1, CursorIsInStep, WriteWordOfCursor
  <2>3. dev.t.mem \in [Addr -> Value]
    BY CursorIsInStep, DeviceParts DEF Good, Target
  <2> HIDE DEF r
  <2>4. \A b \in Addr \ {a} : StoreNeedsChip(dev) \/ r.dev.t.mem[b] = dev.t.mem[b]
    BY <2>1, <2>2, <2>3
  <2> QED
    BY <2>1, <2>2, <2>4 DEF r
<1> QED
  BY <1>1, SpecCursorInv, PTL

-----------------------------------------------------------------------------
(***************************************************************************)
(* Asking again.  A ReadWord leaves the cursor's record one word past the  *)
(* address it was asked for, so the same question is never a hit.          *)
(***************************************************************************)
\* However ReadWord comes out, its record of the cursor is kept; when it reports
\* success, the word is as good as the cursor was.
LEMMA AnswerKeeps ==
  ASSUME NEW s \in Device, NEW u, NEW glitch
  PROVE  LET r == Answer(s, u, glitch) IN
         /\ r.dev.statetag = s.statetag /\ r.dev.currentstateval = s.currentstateval
         /\ r.dev.autoincrement = s.autoincrement /\ r.dev.setup = s.setup
         /\ r.status = "ok" /\ s.setup /\ s.sync => r.exact
<1> DEFINE a == Answer(s, u, glitch)
           Kept(e) == /\ e.statetag = s.statetag /\ e.setup = s.setup
                      /\ e.currentstateval = s.currentstateval
                      /\ e.autoincrement = s.autoincrement
<1>1. ASSUME NEW t, NEW sync PROVE Kept([s EXCEPT !.t = t, !.sync = sync])
  BY DEF Device
<1>2. ASSUME DoneStatus(u, glitch) # "ok"
      PROVE  Kept(a.dev) /\ a.status # "ok"
  <2> DEFINE e == [s EXCEPT !.t = DoneTarget(u, glitch), !.sync = FALSE]
  <2>1. a = Result(e, DoneStatus(u, glitch), Junk, FALSE)
    BY <1>2 DEF Answer
  <2>2. Kept(e)
    BY <1>1
  <2> HIDE DEF e, a
  <2> QED
    BY <1>2, <2>1, <2>2 DEF Result
<1>3. ASSUME DoneStatus(u, glitch) = "ok", glitch \in {"data_lost", "data_late"}
      PROVE  Kept(a.dev) /\ a.status # "ok"
  <2> DEFINE t == IF glitch = "data_late" THEN Repeat(u) ELSE u
             e == [s EXCEPT !.t = t, !.sync = FALSE]
  <2>1. a = Result(e, "link", Junk, FALSE)
    BY <1>3 DEF Answer
  <2> HIDE DEF t
  <2>2. Kept(e)
    BY <1>1
  <2> HIDE DEF e, a
  <2> QED
    BY <2>1, <2>2 DEF Result
<1>4. ASSUME DoneStatus(u, glitch) = "ok", glitch \notin {"data_lost", "data_late"}
      PROVE  Kept(a.dev) /\ a.exact = (s.setup /\ s.sync)
  <2> DEFINE sync == s.sync /\ ~Repeat(u).err
             e == [s EXCEPT !.t = Repeat(u), !.sync = sync]
  <2>1. a = Result(e, "ok", u.d0, s.setup /\ s.sync)
    BY <1>4 DEF Answer
  <2> HIDE DEF sync
  <2>2. Kept(e)
    BY <1>1
  <2> HIDE DEF e, a
  <2>3. a.dev = e /\ a.exact = (s.setup /\ s.sync)
    BY <2>1 DEF Result
  <2> QED
    BY <2>2, <2>3
<1> HIDE DEF a
<1>5. Kept(a.dev)
  BY <1>2, <1>3, <1>4
<1>6. a.status = "ok" /\ s.setup /\ s.sync => a.exact
  BY <1>2, <1>3, <1>4
<1> QED
  BY <1>5, <1>6 DEF a

\* What a ReadWord of an address that is not a status register leaves.
LEMMA ReadWordLeaves ==
  ASSUME NEW d, Good(d), NEW sn, Cursor(d, sn), Fresh(d, sn),
         NEW a \in Addr \ StatusAddrs, NEW glitch \in Glitches
  PROVE  LET e == ReadWordKnown(d, a, glitch).dev IN
         e.statetag = "RDSQ" /\ e.autoincrement /\ e.currentstateval = After(a)
<1> DEFINE p == PointRead(d, a, TRUE, glitch)
           u == IF p.no_autoexec THEN Execute(p.t) ELSE p.t
           s == [p EXCEPT !.currentstateval = After(p.currentstateval)]
           e == ReadWordKnown(d, a, glitch).dev
<1>1. /\ p \in Device /\ p.statetag = "RDSQ" /\ p.currentstateval = a
      /\ p.autoincrement = TRUE
  <2>1. Steps(a) = TRUE
    BY DEF Steps
  <2> QED
    BY <2>1, PointReadGood, PointReadCursor DEF Good
<1>2. ReadWordKnown(d, a, glitch) = Answer(s, u, glitch)
  BY DEF ReadWordKnown, Fetch, Steps
<1> HIDE DEF p
<1>3. /\ s \in Device /\ s.statetag = "RDSQ" /\ s.autoincrement = TRUE
      /\ s.currentstateval = After(a)
  BY <1>1, AfterInAddr DEF Device
<1> HIDE DEF s, u
<1> QED
  BY <1>2, <1>3, AnswerKeeps

\* A ReadWord that finds its program loaded and the cursor elsewhere points the
\* cursor: on a device nobody disturbed, its success is one to rely on.
LEMMA PointedAnewIsExact ==
  ASSUME NEW d, Good(d), NEW a \in Addr \ StatusAddrs, NEW glitch \in Glitches,
         d.statetag = "RDSQ", d.autoincrement, d.currentstateval # a,
         LET r == ReadWordKnown(d, a, glitch) IN r.status = "ok" /\ r.dev.setup
  PROVE  ReadWordKnown(d, a, glitch).exact
<1> DEFINE p == PointRead(d, a, TRUE, glitch)
           u == IF p.no_autoexec THEN Execute(p.t) ELSE p.t
           s == [p EXCEPT !.currentstateval = After(p.currentstateval)]
           r == ReadWordKnown(d, a, glitch)
           t == IF d.no_autoexec THEN [d.t EXCEPT !.d1 = a]
                ELSE Execute([d.t EXCEPT !.d1 = a])
<1>1. d \in Device /\ d.autoincrement = TRUE
  BY DEF Good, Device
<1>2. p = Pointed(d, a)
  BY <1>1 DEF PointRead, LoadRead
<1>3. p = [d EXCEPT !.statetag = "RDSQ", !.currentstateval = a, !.sync = TRUE, !.t = t]
  BY <1>2 DEF Pointed
<1>4. p \in Device
  BY PointReadGood DEF Good
<1> HIDE DEF t
<1>5. p.sync = TRUE
  BY <1>1, <1>3 DEF Device
<1>6. r = Answer(s, u, glitch)
  BY DEF ReadWordKnown, Fetch, Steps
<1> HIDE DEF p
<1>7. s \in Device /\ s.sync = TRUE
  <2>1. p.currentstateval = a
    BY PointReadGood DEF p
  <2> QED
    BY <1>4, <1>5, <2>1, AfterInAddr DEF Device
<1> HIDE DEF s, u
<1>8. r.dev.setup = s.setup /\ (r.status = "ok" /\ s.setup /\ s.sync => r.exact)
  <2>1. LET o == Answer(s, u, glitch) IN
        o.dev.setup = s.setup /\ (o.status = "ok" /\ s.setup /\ s.sync => o.exact)
    BY <1>7, AnswerKeeps
  <2> HIDE DEF r
  <2> QED
    BY <1>6, <2>1
<1>9. r.status = "ok" /\ r.dev.setup
  OBVIOUS
<1> HIDE DEF r
<1>10. r.exact
  BY <1>7, <1>8, <1>9
<1> QED
  BY <1>10 DEF r

\* The word after an address is another one, wherever there are two.
LEMMA AfterIsAnother == ASSUME AddrSpace > 1, NEW a \in Addr PROVE After(a) # a
<1>1. AddrSpace \in Nat /\ a \in Int /\ a >= 0 /\ a < AddrSpace
  BY DebugLinkAssumption DEF Addr
<1>2. CASE a + 1 < AddrSpace
  <2>1. (a + 1) % AddrSpace = a + 1
    BY <1>1, <1>2
  <2> QED
    BY <1>1, <2>1 DEF After
<1>3. CASE a + 1 = AddrSpace
  <2>1. (a + 1) % AddrSpace = 0
    BY <1>1, <1>3
  <2> QED
    BY <1>1, <1>3, <2>1 DEF After
<1> QED
  BY <1>1, <1>2, <1>3

\* A ReadWord that was asked for anything but a status register, sent or not,
\* leaves the read program's tag, its step and a cursor one word further.
LEMMA RetryStarts ==
  ASSUME CursorInv, NEW a \in Addr \ StatusAddrs, NEW glitch \in Glitches
  PROVE  LET e == ReadWordOf(dev, a, "unrecognised", glitch).dev IN
         /\ Good(e) /\ (Cursor(e, StatusOf(e)) \/ (Cursor(e, seen) /\ Fresh(e, seen)))
         /\ e.statetag = "RDSQ" /\ e.autoincrement /\ e.currentstateval = After(a)
<1> DEFINE s == Identified(dev, ReadNeedsChip(dev, a), "unrecognised")
           o == ReadWordKnown(s, a, glitch)
           r == ReadWordOf(dev, a, "unrecognised", glitch)
           e == r.dev
<1>0. "unrecognised" \in Outcomes /\ "unrecognised" \notin Failures
  BY DEF Outcomes, Failures
<1>1. Good(dev) /\ Cursor(dev, seen) /\ Fresh(dev, seen)
  BY CursorIsInStep
<1>2. Good(e) /\ e \in Device
  BY <1>0, <1>1, ReadWordOfGood DEF Good
<1>3. IF ReadNeedsChip(dev, a)
      THEN Cursor(e, StatusOf(e)) \/ (Cursor(e, seen) /\ e.t.mem = dev.t.mem)
      ELSE Cursor(e, seen) /\ (e.setup => SameStore(e.t, dev.t))
  BY <1>0, <1>1, ReadWordOfCursor
<1>4. r = Sent(s, o, "link")
  BY <1>0 DEF ReadWordOf, GivesUp
<1>5. /\ Good(s) /\ s \in Device
      /\ ReadNeedsChip(dev, a) => \A any : Cursor(s, any)
      /\ ~ReadNeedsChip(dev, a) => s = dev
  <2>1. ReadNeedsChip(dev, a) \in BOOLEAN
    BY DEF ReadNeedsChip
  <2> QED
    BY <1>0, <1>1, <2>1, IdentifiedGood, IdentifiedCursor DEF Good
<1> HIDE DEF s
<1>6. Good(o.dev) /\ o.dev \in Device
  BY <1>5, ReadWordKnownGood DEF Good
<1>7. /\ o.dev.statetag = "RDSQ" /\ o.dev.autoincrement
      /\ o.dev.currentstateval = After(a)
  <2>1. CASE ReadNeedsChip(dev, a)
    BY <1>5, <2>1, StatusOfIsFresh, ReadWordLeaves
  <2>2. CASE ~ReadNeedsChip(dev, a)
    BY <1>1, <1>5, <2>2, ReadWordLeaves
  <2> QED
    BY <2>1, <2>2
<1> HIDE DEF o
<1>8. /\ r.dev.statetag = o.dev.statetag /\ r.dev.autoincrement = o.dev.autoincrement
      /\ r.dev.currentstateval = o.dev.currentstateval
  <2>1. CASE s.opmode
    <3>1. r = o
      BY <1>4, <1>5, <1>6, <2>1, SentCursor
    <3> HIDE DEF r
    <3> QED
      BY <3>1
  <2>2. CASE ~s.opmode
    <3> DEFINE f == [o.dev EXCEPT !.t = s.t, !.setup = FALSE, !.sync = FALSE]
    <3>1. r = Result(f, "link", Junk, FALSE)
      BY <1>4, <2>2 DEF Sent
    <3>2. /\ f.statetag = o.dev.statetag /\ f.autoincrement = o.dev.autoincrement
          /\ f.currentstateval = o.dev.currentstateval
      BY <1>6 DEF Device
    <3> HIDE DEF f, r
    <3>3. r.dev = f
      BY <3>1 DEF Result
    <3> QED
      BY <3>2, <3>3
  <2> QED
    BY <2>1, <2>2
<1> HIDE DEF r
<1>9. Cursor(e, StatusOf(e)) \/ (Cursor(e, seen) /\ Fresh(e, seen))
  <2>1. CASE ~e.setup
    BY <2>1, QuietCursor
  <2>2. CASE e.setup /\ ~ReadNeedsChip(dev, a)
    BY <1>1, <1>3, <2>2 DEF Fresh, SameStore
  <2>3. CASE ReadNeedsChip(dev, a)
    BY <1>1, <1>3, <2>3 DEF Fresh
  <2> QED
    BY <2>1, <2>2, <2>3
<1> QED
  BY <1>2, <1>7, <1>8, <1>9 DEF r

\* The same word asked for again, after a read that failed or did not: when it
\* reports success on a device nobody disturbed, it is the word that is there.
LEMMA RereadIsRight ==
  ASSUME AddrSpace > 1, NEW d, Good(d), NEW sn, Cursor(d, sn), Fresh(d, sn),
         NEW a \in Addr \ StatusAddrs,
         d.statetag = "RDSQ", d.autoincrement, d.currentstateval = After(a),
         LET r == ReadWordOf(d, a, "unrecognised", "none")
         IN  r.status = "ok" /\ r.dev.setup
  PROVE  LET r == ReadWordOf(d, a, "unrecognised", "none") IN r.word = r.dev.t.mem[a]
<1> DEFINE o == ReadWordKnown(d, a, "none")
           r == ReadWordOf(d, a, "unrecognised", "none")
<1>0. "none" \in Glitches /\ d \in Device /\ d.currentstateval # a
  BY GlitchAssumption, AfterIsAnother DEF Good
<1>1. ~ReadNeedsChip(d, a)
  <2>1. d.autoincrement = TRUE /\ Steps(a) = TRUE
    BY <1>0 DEF Device, Steps
  <2> QED
    BY <2>1 DEF ReadNeedsChip
<1>2. r = Sent(d, o, "link")
  BY <1>1 DEF ReadWordOf, Identified, GivesUp
<1>3. r.status = "ok" /\ r.dev.setup
  OBVIOUS
<1> HIDE DEF r
<1>4. Good(o.dev) /\ o.dev \in Device
  BY <1>0, ReadWordKnownGood DEF Good
<1>5. /\ o.dev.setup => SameStore(o.dev.t, d.t)
      /\ o.exact /\ o.status = "ok" => Answers(d.t.mem, sn, a, o.word)
  BY <1>0, ReadWordCursor
<1>6. o.status = "ok" /\ o.dev.setup => o.exact
  BY <1>0, PointedAnewIsExact
<1> HIDE DEF o
<1>7. r = o
  BY <1>0, <1>2, <1>3, <1>4, SentCursor
<1>8. r.word = r.dev.t.mem[a]
  BY <1>3, <1>5, <1>6, <1>7 DEF Answers, SameStore
<1> QED
  BY <1>8 DEF r

\* A read that is asked again after a failure answers the word at its address:
\* whatever broke the first, the second points the cursor anew.  An address space of
\* one word is left out, in which the next word is the same one; the chips' have
\* 2^32 bytes.
THEOREM RetriesAreRight == ASSUME AddrSpace > 1 PROVE Spec => []RetriedReadIsRight
<1>1. CursorInv => RetriedReadIsRight
  <2> SUFFICES ASSUME CursorInv, NEW a \in Addr \ StatusAddrs,
                      NEW glitch \in Glitches \ {"none"}
               PROVE  LET r == RetryOf(ReadWordOf(dev, a, "unrecognised", glitch), a)
                      IN  r.status = "ok" /\ r.dev.setup => r.word = r.dev.t.mem[a]
    BY DEF RetriedReadIsRight
  <2> DEFINE d == ReadWordOf(dev, a, "unrecognised", glitch).dev
             r == ReadWordOf(d, a, "unrecognised", "none")
  <2>1. /\ Good(d) /\ (Cursor(d, StatusOf(d)) \/ (Cursor(d, seen) /\ Fresh(d, seen)))
        /\ d.statetag = "RDSQ" /\ d.autoincrement /\ d.currentstateval = After(a)
    BY RetryStarts
  <2> HIDE DEF d
  <2>2. PICK sn : Cursor(d, sn) /\ Fresh(d, sn)
    BY <2>1, StatusOfIsFresh
  <2>3. r.status = "ok" /\ r.dev.setup => r.word = r.dev.t.mem[a]
    BY <2>1, <2>2, RereadIsRight
  <2> HIDE DEF r
  <2>4. RetryOf(ReadWordOf(dev, a, "unrecognised", glitch), a) = r
    BY DEF RetryOf, d, r
  <2> QED
    BY <2>3, <2>4
<1> QED
  BY <1>1, SpecCursorInv, PTL

-----------------------------------------------------------------------------
(***************************************************************************)
(* No stray program.  Every other call, too, runs only the program it has  *)
(* loaded itself or that statetag names, with the pointers that go with    *)
(* it.                                                                     *)
(***************************************************************************)
\* A byte program is whole when it is run.
LEMMA LoadByteRunsNothing ==
  ASSUME NEW d \in Device, NEW instruction \in {"lb", "sb"}
  PROVE  LET t == LoadByte(d, instruction) IN
         /\ t \in Target /\ ~t.auto /\ t.stray = d.t.stray
         /\ t.pb[0] = instruction /\ t.pb[1] = "end"
<1> DEFINE t == SetAuto(d.t, FALSE)
           u == [t EXCEPT !.pb[0] = instruction]
           w == [u EXCEPT !.pb[1] = "end"]
           p == PutData0(w, Junk)
<1>1. t \in Target /\ ~t.auto /\ t.stray = d.t.stray
  BY DeviceParts, SetAutoType, SetAutoKeeps DEF SameStore
<1>2. instruction \in Code /\ "end" \in Code
  BY DEF Code
<1>3. LoadByte(d, instruction) = p
  BY DEF LoadByte, t, u, w
<1> HIDE DEF t
<1>4. /\ u \in Target /\ ~u.auto /\ u.stray = t.stray
      /\ u.pb = [t.pb EXCEPT ![0] = instruction]
  BY <1>1, <1>2, PutSlot
<1> HIDE DEF u
<1>5. w \in Target /\ ~w.auto /\ w.stray = u.stray /\ w.pb = [u.pb EXCEPT ![1] = "end"]
  BY <1>2, <1>4, PutSlot
<1>6. t.pb \in [0 .. 3 -> Code]
  BY <1>1 DEF Target
<1>7. w.pb[0] = instruction /\ w.pb[1] = "end"
  BY <1>4, <1>5, <1>6
<1> HIDE DEF w
<1>8. p \in Target /\ ~p.auto /\ p.stray = w.stray /\ p.pb = w.pb
  BY <1>5, JunkIsValue, PutData0Type, PutData0Quiet DEF SameSetting, SameStore
<1> HIDE DEF p
<1> QED
  BY <1>1, <1>3, <1>4, <1>5, <1>7, <1>8

\* The byte operations run their own program.
LEMMA BytesRunTheirOwn ==
  ASSUME NEW d \in Device, NEW a \in Addr, NEW v \in Value, NEW glitch \in Glitches
  PROVE  /\ ReadByteOf(d, a, glitch).dev.t.stray = d.t.stray
         /\ WriteByteOf(d, a, v, glitch).dev.t.stray = d.t.stray
<1>1. ASSUME NEW t \in Target, t.pb[0] \in {"lb", "sb"}, t.pb[1] = "end",
             t.stray = d.t.stray
      PROVE  DoneTarget(RunByte(t, a), glitch).stray = d.t.stray
  <2> DEFINE u == RunByte(t, a)
  <2>1. u.stray = t.stray
    BY <1>1 DEF RunByte, Target
  <2>2. u \in Target
    BY <1>1, RunByteType
  <2> HIDE DEF u
  <2>3. DoneTarget(u, glitch).stray = u.stray
    BY <2>2 DEF DoneTarget, Target
  <2> QED
    BY <1>1, <2>1, <2>3 DEF u
<1>2. ReadByteOf(d, a, glitch).dev.t.stray = d.t.stray
  <2> DEFINE t == LoadByte(d, "lb")
             u == DoneTarget(RunByte(t, a), glitch)
  <2>1. /\ t \in Target /\ t.pb[0] \in {"lb", "sb"} /\ t.pb[1] = "end"
        /\ t.stray = d.t.stray
    BY LoadByteRunsNothing
  <2> HIDE DEF t
  <2>2. u.stray = d.t.stray
    BY <1>1, <2>1
  <2>3. ReadByteOf(d, a, glitch).dev.t = u
    BY DEF ReadByteOf, Result, Device, t
  <2> QED
    BY <2>2, <2>3
<1>3. WriteByteOf(d, a, v, glitch).dev.t.stray = d.t.stray
  <2> DEFINE l == LoadByte(d, "sb")
             t == PutData0(l, v)
             u == DoneTarget(RunByte(t, a), glitch)
  <2>1. /\ l \in Target /\ ~l.auto /\ l.pb[0] = "sb" /\ l.pb[1] = "end"
        /\ l.stray = d.t.stray
    BY LoadByteRunsNothing
  <2> HIDE DEF l
  <2>2. /\ t \in Target /\ t.pb[0] \in {"lb", "sb"} /\ t.pb[1] = "end"
        /\ t.stray = d.t.stray
    BY <2>1, PutData0Type, PutData0Quiet DEF SameSetting, SameStore
  <2> HIDE DEF t
  <2>3. u.stray = d.t.stray
    BY <1>1, <2>2
  <2>4. WriteByteOf(d, a, v, glitch).dev.t = u
    BY DEF WriteByteOf, Result, Device, t, l
  <2> QED
    BY <2>3, <2>4
<1> QED
  BY <1>2, <1>3

\* ch5xx_write_safe runs the unlocking program with the store its mode asks for.
LEMMA WriteSafeRunsItsOwn ==
  ASSUME NEW d, Good(d), d.setup, NEW a \in Addr, NEW v \in Value,
         NEW store \in SafeTags, NEW glitch \in Glitches
  PROVE  WriteSafe(d, a, v, store, glitch).dev.t.stray = d.t.stray
<1> DEFINE q == PutData0(SetAuto(d.t, FALSE), Junk)
           l0 == [q EXCEPT !.pb[0] = "safe"]
           l1 == [l0 EXCEPT !.pb[1] = "safe"]
           l == [l1 EXCEPT !.pb[2] = "safe"]
           s == IF d.statetag = store THEN l ELSE [l EXCEPT !.pb[3] = store]
           x == [s.x EXCEPT !["x12"] = "other", !["x13"] = "SAFE"]
           y == Transfer(s, x)
           u == RunSafe(y, a, v, store)
           t == DoneTarget(u, glitch)
<1>0. d \in Device /\ Truthful(d) /\ d.t \in Target
  BY DeviceParts DEF Good
<1>1. q \in Target /\ q.stray = d.t.stray /\ q.pb = d.t.pb
  <2> DEFINE c == SetAuto(d.t, FALSE)
  <2>1. c \in Target /\ ~c.auto /\ c.pb = d.t.pb /\ c.stray = d.t.stray
    BY <1>0, SetAutoType, SetAutoKeeps DEF SameStore
  <2> HIDE DEF c
  <2>2. LET o == PutData0(c, Junk) IN o \in Target /\ o.stray = c.stray /\ o.pb = c.pb
    BY <2>1, JunkIsValue, PutData0Type, PutData0Quiet DEF SameSetting, SameStore
  <2> QED
    BY <2>1, <2>2 DEF c
<1>2. "safe" \in Code /\ store \in Code
  BY DEF Code, Tags, SafeTags
<1>3. WriteSafe(d, a, v, store, glitch).dev.t = t
  <2>1. [q EXCEPT !.pb[0] = "safe", !.pb[1] = "safe", !.pb[2] = "safe"] = l
    BY DEF l, l1, l0
  <2> QED
    BY <1>0, <2>1 DEF WriteSafe, Result, Device, s, x, u, q, y, t
<1> HIDE DEF q
<1>4. l0 \in Target /\ l0.stray = q.stray /\ l0.pb = [q.pb EXCEPT ![0] = "safe"]
  BY <1>1, <1>2, PutSlot
<1> HIDE DEF l0
<1>5. l1 \in Target /\ l1.stray = q.stray /\ l1.pb = [l0.pb EXCEPT ![1] = "safe"]
  BY <1>2, <1>4, PutSlot
<1> HIDE DEF l1
<1>6. l \in Target /\ l.stray = q.stray /\ l.pb = [l1.pb EXCEPT ![2] = "safe"]
  BY <1>2, <1>5, PutSlot
<1> HIDE DEF l
<1>7. d.statetag = store => d.t.pb[3] = store
  BY <1>0 DEF Truthful, Program
<1>8. s \in Target /\ s.stray = d.t.stray /\ s.pb[3] = store
  <2>0. d.t.pb \in [0 .. 3 -> Code] /\ l.pb \in [0 .. 3 -> Code]
    BY <1>0, <1>6 DEF Target
  <2>1. CASE d.statetag = store
    <3>1. l.pb[3] = d.t.pb[3]
      BY <1>1, <1>4, <1>5, <1>6, <2>0
    <3> QED
      BY <1>1, <1>6, <1>7, <2>1, <3>1
  <2>2. CASE d.statetag # store
    <3>1. s = [l EXCEPT !.pb[3] = store]
      BY <2>2
    <3> HIDE DEF s
    <3>2. s \in Target /\ s.stray = l.stray /\ s.pb = [l.pb EXCEPT ![3] = store]
      BY <1>2, <1>6, <3>1, PutSlot
    <3> QED
      BY <1>1, <1>6, <2>0, <3>2
  <2> QED
    BY <2>1, <2>2
<1> HIDE DEF s
<1>9. x \in [Registers -> RegisterValues] /\ x["x13"] = "SAFE"
  <2>1. s.x \in [Registers -> RegisterValues]
    BY <1>8 DEF Target
  <2> QED
    BY <2>1, SafeRegistersType DEF Registers
<1> HIDE DEF x
<1>10. /\ y \in Target /\ y.stray = s.stray /\ y.pb = s.pb
       /\ ~y.err => y.x["x13"] = "SAFE"
  BY <1>8, <1>9, TransferType, TransferQuiet DEF SameStore
<1> HIDE DEF y
<1>11. u \in Target /\ u.stray = d.t.stray
  <2>1. u.stray = y.stray
    BY <1>8, <1>10 DEF RunSafe, Target
  <2> QED
    BY <1>8, <1>10, <2>1, RunSafeType
<1> HIDE DEF u
<1>12. t.stray = u.stray
  BY <1>11 DEF DoneTarget, Target
<1> QED
  BY <1>3, <1>11, <1>12

\* The flash programs of the CH5xx run with x13 set for them.
LEMMA FlashOpRunsItsOwn ==
  ASSUME NEW d, Good(d), d.setup, NEW op \in FlashTags, NEW glitch \in Glitches
  PROVE  FlashOp(d, op, glitch).dev.t.stray = d.t.stray
<1> DEFINE q == PutData0(SetAuto(d.t, FALSE), Junk)
           x == [q.x EXCEPT !["x13"] = "FLASH"]
           g == IF d.statetag \in FlashTags THEN d.t ELSE Transfer(q, x)
           pb == [i \in 0 .. 3 |-> op]
           l == LoadFlash(d, op)
           p == IF op \in {"FBEG", "FOUT"} THEN PutData0(l.t, Junk) ELSE l.t
           u == RunFlash(p, op)
           t == IF op # "FLIN" THEN u
                ELSE IF DoneStatus(u, glitch) = "ok"
                     THEN [u EXCEPT !.d0 = Junk, !.cmd = "transfer"]
                     ELSE DoneTarget(u, glitch)
<1>0. d \in Device /\ Truthful(d) /\ d.t \in Target
  BY DeviceParts DEF Good
<1>1. l \in Device /\ l.t \in Target /\ FlashArmed(l, op)
  BY LoadFlashArmed, DeviceParts
<1>2. /\ l.t = IF d.statetag = op THEN g ELSE [g EXCEPT !.pb = pb]
      /\ l.setup = IF d.statetag \in FlashTags THEN d.setup ELSE ~g.err
  BY <1>0 DEF LoadFlash, Device
<1>3. FlashOp(d, op, glitch).dev.t = t
  BY <1>1 DEF FlashOp, Result, Device
<1>4. q \in Target /\ ~q.auto /\ q.stray = d.t.stray
  <2> DEFINE c == SetAuto(d.t, FALSE)
  <2>1. c \in Target /\ ~c.auto /\ c.stray = d.t.stray
    BY <1>0, SetAutoType, SetAutoKeeps DEF SameStore
  <2> HIDE DEF c
  <2>2. LET o == PutData0(c, Junk) IN o \in Target /\ o.stray = c.stray /\ o.auto = c.auto
    BY <2>1, JunkIsValue, PutData0Type, PutData0Quiet DEF SameSetting, SameStore
  <2> QED
    BY <2>1, <2>2 DEF c
<1> HIDE DEF q
<1>5. /\ g \in Target /\ ~g.auto /\ g.stray = d.t.stray
      /\ d.statetag \in FlashTags \/ ~g.err => l.setup
  <2>1. CASE d.statetag \in FlashTags
    BY <1>0, <1>2, <2>1 DEF Truthful
  <2>2. CASE d.statetag \notin FlashTags
    <3>1. x \in [Registers -> RegisterValues]
      <4>1. q.x \in [Registers -> RegisterValues]
        BY <1>4 DEF Target
      <4> QED
        BY <4>1 DEF RegisterValues
    <3> HIDE DEF x
    <3>2. LET y == Transfer(q, x) IN y \in Target /\ y.auto = q.auto /\ y.stray = q.stray
      BY <1>4, <3>1, TransferType, TransferQuiet DEF SameStore
    <3> QED
      BY <1>2, <1>4, <2>2, <3>2
  <2> QED
    BY <2>1, <2>2
<1> HIDE DEF g, l
<1>6. ~l.t.auto /\ l.t.stray = d.t.stray /\ (l.setup \/ l.t.err)
  BY <1>2, <1>5 DEF Target
<1>7. /\ p \in Target /\ p.pb = l.t.pb /\ p.x = l.t.x /\ p.err = l.t.err
      /\ p.stray = d.t.stray
  BY <1>1, <1>6, JunkIsValue, PutData0Type, PutData0Quiet DEF SameSetting, SameStore
<1> HIDE DEF p
<1>8. p.err \/ (p.x["x13"] = "FLASH" /\ \A i \in 0 .. 3 : p.pb[i] = op)
  BY <1>1, <1>6, <1>7 DEF FlashArmed
<1>9. u \in Target /\ u.stray = d.t.stray
  <2>1. u.stray = p.stray
    BY <1>7, <1>8 DEF RunFlash, Target
  <2> QED
    BY <1>7, <2>1, RunFlashType
<1> HIDE DEF u
<1>10. t.stray = u.stray
  BY <1>9 DEF DoneTarget, Target
<1> QED
  BY <1>3, <1>9, <1>10

\* PollTerminal has autoexec off whenever it touches DATA0.
LEMMA PollTerminalRunsNothing ==
  ASSUME NEW d, Good(d), d.setup, NEW ack \in BOOLEAN, NEW both \in BOOLEAN
  PROVE  PollTerminalOf(d, ack, both).dev.t.stray = d.t.stray
<1> DEFINE u == IF d.statetag = "TERM" THEN d.t ELSE SetAuto(d.t, FALSE)
           r == Repeat(u)
           b == IF ack /\ both THEN [r EXCEPT !.d1 = Junk] ELSE r
           t == IF ack THEN PutData0(b, Junk) ELSE b
<1>0. d \in Device /\ Truthful(d) /\ d.t \in Target
  BY DeviceParts DEF Good
<1>1. PollTerminalOf(d, ack, both).dev.t = t
  BY <1>0 DEF PollTerminalOf, Result, Device
<1>2. u \in Target /\ ~u.auto /\ u.stray = d.t.stray
  <2>1. CASE d.statetag = "TERM"
    BY <1>0, <2>1 DEF Truthful
  <2>2. CASE d.statetag # "TERM"
    BY <1>0, <2>2, SetAutoType, SetAutoKeeps DEF SameStore
  <2> QED
    BY <2>1, <2>2
<1> HIDE DEF u
<1>3. r = u
  BY <1>2 DEF Repeat
<1> HIDE DEF r
<1>4. b \in Target /\ ~b.auto /\ b.stray = u.stray
  BY <1>2, <1>3 DEF Target
<1> HIDE DEF b
<1>5. t.stray = b.stray
  BY <1>4, JunkIsValue, PutData0Quiet DEF SameStore
<1> QED
  BY <1>1, <1>2, <1>4, <1>5

\* What was not sent ran nothing.
LEMMA SentRunsNoMore ==
  ASSUME NEW d \in Device, NEW r, r.dev \in Device, r.dev.t.stray = d.t.stray, NEW status
  PROVE  Sent(d, r, status).dev.t.stray = d.t.stray
<1>1. CASE d.opmode
  BY <1>1 DEF Sent
<1>2. CASE ~d.opmode
  BY <1>2, SentCursor
<1> QED
  BY <1>1, <1>2

\* The calls of the host that are neither a ReadWord nor a WriteWord.
LEMMA OtherCallsRunTheirOwn ==
  ASSUME CursorInv, dev.setup,
         \/ \E a \in Addr : ReadByte(a)
         \/ \E a \in Addr, v \in Words : WriteByte(a, v)
         \/ \E a \in Addr, store \in SafeTags : SafeCall(a, store)
         \/ \E op \in FlashTags : FlashCall(op)
         \/ PollTerminal
  PROVE  dev'.t.stray = dev.t.stray
<1>0. Good(dev) /\ dev \in Device
  BY CursorIsInStep DEF Good
<1>1. ASSUME NEW a \in Addr, ReadByte(a) PROVE dev'.t.stray = dev.t.stray
  <2>1. PICK glitch \in Glitches : dev' = Sent(dev, ReadByteOf(dev, a, glitch), "link").dev
    BY <1>1 DEF ReadByte, Becomes
  <2>2. Good(ReadByteOf(dev, a, glitch).dev)
    BY <1>0, JunkIsValue, BytesGood
  <2>3. ReadByteOf(dev, a, glitch).dev.t.stray = dev.t.stray
    BY <1>0, JunkIsValue, BytesRunTheirOwn
  <2> QED
    BY <1>0, <2>1, <2>2, <2>3, SentRunsNoMore DEF Good
<1>2. ASSUME NEW a \in Addr, NEW v \in Words, WriteByte(a, v)
      PROVE  dev'.t.stray = dev.t.stray
  <2>1. PICK glitch \in Glitches :
          dev' = Sent(dev, WriteByteOf(dev, a, v, glitch), "link").dev
    BY <1>2 DEF WriteByte, Becomes
  <2>2. v \in Value
    BY DEF Value
  <2>3. Good(WriteByteOf(dev, a, v, glitch).dev)
    BY <1>0, <2>2, BytesGood
  <2>4. WriteByteOf(dev, a, v, glitch).dev.t.stray = dev.t.stray
    BY <1>0, <2>2, BytesRunTheirOwn
  <2> QED
    BY <1>0, <2>1, <2>3, <2>4, SentRunsNoMore DEF Good
<1>3. ASSUME NEW a \in Addr, NEW store \in SafeTags, SafeCall(a, store)
      PROVE  dev'.t.stray = dev.t.stray
  <2>1. PICK glitch \in Glitches :
          dev' = Sent(dev, WriteSafe(dev, a, Junk, store, glitch), "ok").dev
    BY <1>3 DEF SafeCall, Becomes
  <2>2. Good(WriteSafe(dev, a, Junk, store, glitch).dev)
    BY <1>0, JunkIsValue, WriteSafeGood
  <2>3. WriteSafe(dev, a, Junk, store, glitch).dev.t.stray = dev.t.stray
    BY <1>0, JunkIsValue, WriteSafeRunsItsOwn
  <2> QED
    BY <1>0, <2>1, <2>2, <2>3, SentRunsNoMore DEF Good
<1>4. ASSUME NEW op \in FlashTags, FlashCall(op) PROVE dev'.t.stray = dev.t.stray
  <2>1. PICK glitch \in Glitches : dev' = Sent(dev, FlashOp(dev, op, glitch), "ok").dev
    BY <1>4 DEF FlashCall, Becomes
  <2>2. Good(FlashOp(dev, op, glitch).dev)
    BY <1>0, FlashOpGood
  <2>3. FlashOp(dev, op, glitch).dev.t.stray = dev.t.stray
    BY <1>0, FlashOpRunsItsOwn
  <2> QED
    BY <1>0, <2>1, <2>2, <2>3, SentRunsNoMore DEF Good
<1>5. CASE PollTerminal
  <2>1. PICK ack \in BOOLEAN, both \in BOOLEAN :
          dev' = Sent(dev, PollTerminalOf(dev, ack, both), "link").dev
    BY <1>5 DEF PollTerminal, Becomes
  <2>2. Good(PollTerminalOf(dev, ack, both).dev)
    BY <1>0, PollTerminalGood
  <2>3. PollTerminalOf(dev, ack, both).dev.t.stray = dev.t.stray
    BY <1>0, PollTerminalRunsNothing
  <2> QED
    BY <1>0, <2>1, <2>2, <2>3, SentRunsNoMore DEF Good
<1> QED
  BY <1>1, <1>2, <1>3, <1>4, <1>5

\* What moves no program runs none; after a raw register access or a power cycle
\* the device is marked as disturbed.
LEMMA IdleRunsNothing ==
  ASSUME CursorInv, dev'.setup,
         \/ WaitForDoneOp \/ ResetInternalProgrammingState \/ InitializeSWDSWIO
         \/ OverrideChip \/ RawProgbuf \/ RawRegister \/ PowerCycle
         \/ \E a \in StatusAddrs, v \in Value : StatusChange(a, v)
  PROVE  dev'.t.stray = dev.t.stray
<1>0. dev \in Device /\ dev.t \in Target /\ Cursor(dev, seen)
  BY CursorIsInStep, DeviceParts DEF Good
<1>1. CASE WaitForDoneOp
  BY <1>0, <1>1 DEF WaitForDoneOp, Becomes, Device, Target
<1>2. CASE ResetInternalProgrammingState
  BY <1>0, <1>2
  DEF ResetInternalProgrammingState, ResetInternalProgrammingStateOf, Becomes, Device
<1>3. CASE InitializeSWDSWIO
  <2>1. PICK found \in BOOLEAN, trap \in BOOLEAN :
          dev' = InitializeSWDSWIOOf(dev, found, trap)
    BY <1>3 DEF InitializeSWDSWIO, Becomes
  <2> QED
    BY <1>0, <2>1, InitializeCursor DEF SameStore
<1>4. CASE OverrideChip
  BY <1>0, <1>4 DEF OverrideChip, Becomes, Device
<1>5. CASE RawProgbuf
  <2>1. PICK i \in 0 .. 3 :
          dev' = [dev EXCEPT !.statetag = "XXXX", !.setup = TRUE,
                             !.t.pb[i] = IF dev.opmode THEN "other" ELSE @]
    BY <1>5 DEF RawProgbuf, Becomes
  <2> DEFINE pb == [dev.t.pb EXCEPT ![i] = IF dev.opmode THEN "other" ELSE @]
             t == [dev.t EXCEPT !.pb = pb]
  <2>2. dev' = [dev EXCEPT !.statetag = "XXXX", !.setup = TRUE, !.t = t]
    BY <1>0, <2>1 DEF Device, Target
  <2> HIDE DEF pb
  <2>3. t.stray = dev.t.stray
    BY <1>0 DEF Target
  <2> HIDE DEF t
  <2> QED
    BY <1>0, <2>2, <2>3 DEF Device
<1>6. CASE RawRegister \/ PowerCycle
  <2>1. \E t : dev' = [dev EXCEPT !.t = t, !.setup = FALSE, !.sync = FALSE]
    <3>1. CASE RawRegister
      BY <3>1 DEF RawRegister, Becomes
    <3>2. CASE PowerCycle
      BY <3>2 DEF PowerCycle, Becomes
    <3> QED
      BY <1>6, <3>1, <3>2
  <2> QED
    BY <1>0, <2>1 DEF Device
<1>7. ASSUME NEW a \in StatusAddrs, NEW v \in Value, StatusChange(a, v)
      PROVE  dev'.t.stray = dev.t.stray
  <2> DEFINE mem == [dev.t.mem EXCEPT ![a] = v]
             t == [dev.t EXCEPT !.mem = mem]
  <2>1. dev' = [dev EXCEPT !.t = t]
    BY <1>7 DEF StatusChange
  <2> HIDE DEF mem
  <2>2. t.stray = dev.t.stray
    BY <1>0 DEF Target
  <2> HIDE DEF t
  <2> QED
    BY <1>0, <2>1, <2>2 DEF Device
<1> QED
  BY <1>1, <1>2, <1>3, <1>4, <1>5, <1>6, <1>7

\* On a halted target without cmderr StaticUpdatePROGBUFRegs sets the registers.
LEMMA QuietUpdateSetsUp ==
  ASSUME NEW d \in Device, ~d.t.err, d.t.halted, AutoUsable(d)
  PROVE  StaticUpdate(d, "none").setup
<1> DEFINE a == SetAuto(d.t, FALSE)
           u == [a EXCEPT !.d0 = Junk]
           t == Transfer(u, StaticRegisters("none" # "hartinfo"))
<1>1. a \in Target /\ ~a.auto /\ ~a.err /\ a.halted
  BY DeviceParts, SetAutoType
<1> HIDE DEF a
<1>2. ~u.err /\ u.halted /\ u \in Target /\ ~u.auto
  BY <1>1, JunkIsValue DEF Target
<1>3. PutData0(a, Junk) = u
  BY <1>1, <1>2 DEF PutData0, Repeat
<1> HIDE DEF u
<1>4. ~t.err
  BY <1>2 DEF Transfer, Target
<1>5. StaticUpdate(d, "none") = [d EXCEPT !.t = t, !.setup = AutoUsable(d)]
  BY <1>3, <1>4 DEF StaticUpdate, a
<1> HIDE DEF t
<1> QED
  BY <1>5 DEF Device

\* On a halted target without cmderr StaticUpdatePROGBUFRegs succeeds, and with it
\* a ReadWord that replaces no sequence.
LEMMA QuietReadSetsUp ==
  ASSUME NEW d, Good(d), d.statetag \notin SequenceTags, ~d.t.err, d.t.halted,
         AutoUsable(d), NEW a \in Addr
  PROVE  LET e == ReadWordKnown(d, a, "none").dev
         IN  e.setup /\ e.statetag = "RDSQ" /\ SameStore(e.t, d.t)
<1> DEFINE inc == Steps(a)
           q == StaticUpdate(d, "none")
           p == PointRead(d, a, inc, "none")
           u == IF p.no_autoexec THEN Execute(p.t) ELSE p.t
           c == IF inc THEN After(p.currentstateval) ELSE p.currentstateval
           s == [p EXCEPT !.currentstateval = c]
           e == ReadWordKnown(d, a, "none").dev
<1>0. d \in Device /\ d.t \in Target /\ "none" \in Glitches /\ inc \in BOOLEAN
  BY DeviceParts, GlitchAssumption DEF Good, Steps
<1>1. q \in Device /\ q.setup
  BY <1>0, QuietUpdateSetsUp, StaticUpdateQuiet
<1>2. p = Pointed(WithReadProgram(q, inc), a)
  BY DEF PointRead, LoadRead, ReadReady, SequenceTags
<1> HIDE DEF q
<1>3. p.setup
  <2>1. ASSUME NEW t, NEW k PROVE [q EXCEPT !.autoincrement = inc, !.t = t].setup
    BY <1>1 DEF Device
  <2> DEFINE w == WithReadProgram(q, inc)
  <2>2. w.setup /\ DOMAIN w = DOMAIN q
    BY <1>1 DEF WithReadProgram, Device
  <2> HIDE DEF w
  <2>3. Pointed(w, a).setup
    BY <1>1, <2>2 DEF Pointed, Device
  <2> QED
    BY <1>2, <2>3 DEF w
<1>4. p \in Device /\ p.statetag = "RDSQ" /\ p.currentstateval = a
  BY <1>0, PointReadGood DEF Good
<1>5. ReadWordKnown(d, a, "none") = Answer(s, u, "none")
  BY DEF ReadWordKnown, Fetch
<1> HIDE DEF p
<1>6. s \in Device /\ s.setup /\ s.statetag = "RDSQ"
  BY <1>3, <1>4, AfterInAddr DEF Device
<1> HIDE DEF s, u
<1>7. e.setup /\ e.statetag = "RDSQ"
  <2>1. LET r == Answer(s, u, "none")
        IN  r.dev.statetag = s.statetag /\ r.dev.setup = s.setup
    BY <1>6, AnswerKeeps
  <2> HIDE DEF e
  <2> QED
    BY <1>5, <1>6, <2>1 DEF e
<1>8. e.setup => SameStore(e.t, d.t)
  <2>1. Cursor(d, StatusOf(d))
    BY QuietCursor
  <2> QED
    BY <1>0, <2>1, StatusOfIsFresh, ReadWordCursor
<1> QED
  BY <1>7, <1>8

\* Nor does a WriteWord that replaces no sequence run anything but its own store.
LEMMA QuietStoreRunsItsOwn ==
  ASSUME NEW d, Good(d), d.statetag \notin SequenceTags, ~d.t.err, d.t.halted,
         AutoUsable(d), NEW a \in Addr, NEW v \in Value
  PROVE  WriteWordKnown(d, a, v, "none").dev.t.stray = d.t.stray
<1> DEFINE flash == a \in FlashAddrs
           c == SetAuto(d.t, FALSE)
           q == [d EXCEPT !.t = c]
           l == LoadStore(d, flash, "none")
           r == WriteWordKnown(d, a, v, "none").dev
<1>0. d \in Device /\ d.t \in Target /\ "none" \in Glitches /\ flash \in BOOLEAN
  BY DeviceParts, GlitchAssumption DEF Good
<1>1. c \in Target /\ ~c.err /\ c.halted /\ c.kind = d.t.kind
  BY <1>0, SetAutoType
<1> HIDE DEF c
<1>2. /\ q \in Device /\ ~q.t.err /\ q.t.halted /\ AutoUsable(q)
      /\ q.statetag = d.statetag
  BY <1>0, <1>1 DEF Device, AutoUsable
<1>3. l = WithStoreProgram(StaticUpdate(q, "none"), flash)
  BY <1>2 DEF LoadStore, StoreReady, SequenceTags, c
<1> HIDE DEF q
<1>4. StaticUpdate(q, "none") \in Device /\ StaticUpdate(q, "none").setup
  BY <1>0, <1>2, QuietUpdateSetsUp, StaticUpdateQuiet
<1>5. l.setup
  BY <1>3, <1>4 DEF WithStoreProgram, Device
<1>6. l \in Device
  BY <1>0, LoadStoreArmed
<1> HIDE DEF l
<1>7. ~StoreHits(d, flash)
  BY DEF StoreHits, SequenceTags
<1>8. r.setup
  <2>1. r = StoreResult(d, l, RunStore(d, l, a, v), a, v, "none").dev
    BY <1>7 DEF WriteWordKnown, l
  <2> HIDE DEF r
  <2> QED
    BY <1>5, <1>6, <2>1 DEF StoreResult, Result, Device
<1>9. r.setup => r.t.stray = d.t.stray
  <2>1. Cursor(d, StatusOf(d))
    BY QuietCursor
  <2> HIDE DEF flash, r
  <2>2. LET w == WriteWordKnown(d, a, v, "none") IN
        /\ w.dev.statetag = "WRSQ" /\ \A any : Cursor(w.dev, any)
        /\ w.dev.setup => w.dev.t.stray = d.t.stray
        /\ w.exact => w.dev.setup /\ w.dev.t.mem = [d.t.mem EXCEPT ![a] = v]
    BY <1>0, <2>1, WriteWordCursor
  <2> QED
    BY <2>2 DEF r
<1> QED
  BY <1>8, <1>9

\* ch5xx_write_safe leaves a halted target halted, without cmderr and with its
\* registers set up if its tag is a new one.
LEMMA WriteSafeLeaves ==
  ASSUME NEW d \in Device, NEW a \in Addr, NEW v \in Value, NEW store \in SafeTags
  PROVE  LET b == WriteSafe(d, a, v, store, "none").dev IN
         /\ b.statetag = store /\ b.no_autoexec = d.no_autoexec
         /\ d.statetag # store => b.setup
         /\ b.t.halted = d.t.halted /\ b.t.kind = d.t.kind /\ ~b.t.err
<1> DEFINE q == PutData0(SetAuto(d.t, FALSE), Junk)
           l0 == [q EXCEPT !.pb[0] = "safe"]
           l1 == [l0 EXCEPT !.pb[1] = "safe"]
           l == [l1 EXCEPT !.pb[2] = "safe"]
           s == IF d.statetag = store THEN l ELSE [l EXCEPT !.pb[3] = store]
           x == [s.x EXCEPT !["x12"] = "other", !["x13"] = "SAFE"]
           y == Transfer(s, x)
           u == RunSafe(y, a, v, store)
           t == DoneTarget(u, "none")
           b == WriteSafe(d, a, v, store, "none").dev
<1>1. q \in Target /\ q.halted = d.t.halted /\ q.kind = d.t.kind
  <2> DEFINE c == SetAuto(d.t, FALSE)
  <2>1. c \in Target /\ c.halted = d.t.halted /\ c.kind = d.t.kind
    BY DeviceParts, SetAutoType
  <2> HIDE DEF c
  <2>2. LET o == PutData0(c, Junk) IN o \in Target /\ o.halted = c.halted /\ o.kind = c.kind
    BY <2>1, JunkIsValue, PutData0Type DEF SameSetting
  <2> QED
    BY <2>1, <2>2 DEF c
<1>2. "safe" \in Code /\ store \in Code
  BY DEF Code, Tags, SafeTags
<1>3. /\ b.t = t /\ b.statetag = store /\ b.no_autoexec = d.no_autoexec
      /\ d.statetag # store => b.setup
  <2>1. [q EXCEPT !.pb[0] = "safe", !.pb[1] = "safe", !.pb[2] = "safe"] = l
    BY DEF l, l1, l0
  <2> QED
    BY <2>1 DEF WriteSafe, Result, Device, s, x, u, q, y, t
<1> HIDE DEF q, b
<1>4. l0 \in Target /\ l0.halted = q.halted /\ l0.kind = q.kind
  BY <1>1, <1>2, PutSlot
<1> HIDE DEF l0
<1>5. l1 \in Target /\ l1.halted = q.halted /\ l1.kind = q.kind
  BY <1>2, <1>4, PutSlot
<1> HIDE DEF l1
<1>6. l \in Target /\ l.halted = q.halted /\ l.kind = q.kind
  BY <1>2, <1>5, PutSlot
<1> HIDE DEF l
<1>7. s \in Target /\ s.halted = q.halted /\ s.kind = q.kind
  <2> DEFINE z == [l EXCEPT !.pb[3] = store]
  <2>1. z \in Target /\ z.halted = q.halted /\ z.kind = q.kind
    BY <1>2, <1>6, PutSlot
  <2> QED
    BY <1>6, <2>1
<1> HIDE DEF s
<1>8. y \in Target /\ y.halted = q.halted /\ y.kind = q.kind
  <2>1. x \in [Registers -> RegisterValues]
    <3>1. s.x \in [Registers -> RegisterValues]
      BY <1>7 DEF Target
    <3> QED
      BY <3>1, SafeRegistersType
  <2> HIDE DEF x
  <2> QED
    BY <1>7, <2>1, TransferType
<1> HIDE DEF y
<1>9. u \in Target /\ u.halted = y.halted /\ u.kind = y.kind
  <2>1. u.halted = y.halted /\ u.kind = y.kind
    BY <1>8 DEF RunSafe, Target
  <2> QED
    BY <1>8, <2>1, RunSafeType
<1> HIDE DEF u
<1>10. t.halted = u.halted /\ t.kind = u.kind /\ ~t.err
  BY <1>9 DEF DoneTarget, Target
<1> QED
  BY <1>1, <1>3, <1>8, <1>9, <1>10 DEF b

\* ch5xx_set_clock runs only programs it has loaded.
LEMMA SetClockRunsItsOwn ==
  ASSUME NEW d, Good(d), d.statetag \notin SequenceTags, ~d.t.err, d.t.halted,
         AutoUsable(d), NEW outcome \in Outcomes
  PROVE  SetClock(d, outcome).t.stray = d.t.stray
<1> DEFINE r == ReadWordKnown(d, ClockAddr, "none").dev
           b == WriteSafe(r, ClockAddr, Junk, "5WBS", "none").dev
           h == WriteSafe(b, ClockAddr, Junk, "5WHS", "none").dev
           w == WriteWordKnown(b, ClockAddr, Junk, "none").dev
<1>1. /\ ClockAddr \in Addr /\ "none" \in Glitches /\ Junk \in Value
      /\ "5WBS" \in SafeTags /\ "5WHS" \in SafeTags
  BY DebugLinkAssumption, GlitchAssumption, JunkIsValue DEF SafeTags
<1>2. Good(r) /\ r.setup /\ r.statetag = "RDSQ" /\ r.t.stray = d.t.stray
  BY <1>1, ReadWordKnownGood, QuietReadSetsUp DEF SameStore
<1>3. AutoUsable(r) /\ r.t.halted /\ r \in Device
  BY <1>2 DEF Good, Truthful, SequenceTags
<1> HIDE DEF r
<1>4. /\ Good(b) /\ b.setup /\ b.statetag = "5WBS" /\ b.t.stray = d.t.stray
      /\ ~b.t.err /\ b.t.halted /\ AutoUsable(b)
  <2>1. Good(b)
    BY <1>1, <1>2, WriteSafeGood
  <2>2. b.t.stray = d.t.stray
    BY <1>1, <1>2, WriteSafeRunsItsOwn
  <2>3. /\ b.setup /\ b.statetag = "5WBS" /\ ~b.t.err /\ b.t.halted
        /\ b.t.kind = r.t.kind /\ b.no_autoexec = r.no_autoexec
    BY <1>1, <1>2, <1>3, WriteSafeLeaves
  <2>4. AutoUsable(b)
    BY <1>3, <2>3 DEF AutoUsable
  <2> QED
    BY <2>1, <2>2, <2>3, <2>4
<1> HIDE DEF b
<1>5. h.t.stray = d.t.stray
  BY <1>1, <1>4, WriteSafeRunsItsOwn
<1>6. w.t.stray = d.t.stray
  BY <1>1, <1>4, QuietStoreRunsItsOwn DEF SequenceTags
<1> HIDE DEF h, w
<1>7. \/ SetClock(d, outcome) = r \/ SetClock(d, outcome) = b
      \/ SetClock(d, outcome) = h \/ SetClock(d, outcome) = w
  BY DEF SetClock, ClockWritten, r, b, h, w
<1> QED
  BY <1>2, <1>4, <1>5, <1>6, <1>7

\* The probe of an identification touches DATA0 while autoexec may be on: with the
\* read program loaded, that runs the read program.
LEMMA ProbeRunsTheLoaded ==
  ASSUME NEW d, Good(d), d.setup, d.statetag = "RDSQ", NEW recognised \in BOOLEAN
  PROVE  LET p == Probe(d, recognised) IN
         /\ p.t.stray = d.t.stray /\ ~p.t.err /\ p.t.halted /\ p.statetag = "XXXX"
         /\ recognised => AutoUsable(p)
<1> DEFINE h == [d.t EXCEPT !.halted = TRUE]
           r == Repeat(h)
           u == [r EXCEPT !.auto = FALSE, !.err = FALSE, !.cmd = "transfer",
                          !.pb[0] = "other", !.pb[1] = "end", !.d0 = d.t.d0]
           p == Probe(d, recognised)
<1>0. d \in Device /\ Truthful(d) /\ d.t \in Target /\ d.autoincrement \in BOOLEAN
  BY DeviceParts DEF Good
<1>1. ReadLoaded(d.t, Step(d.autoincrement))
  BY <1>0 DEF Truthful, Program, Step
<1>2. h \in Target /\ h.halted /\ h.stray = d.t.stray /\ h.pb = d.t.pb /\ h.x = d.t.x
  BY <1>0 DEF Target
<1> HIDE DEF h
<1>3. ReadLoaded(h, Step(d.autoincrement))
  BY <1>1, <1>2 DEF ReadLoaded, MailboxSet
<1>4. r \in Target /\ r.halted
  BY <1>2, RepeatType DEF SameSetting
<1>5. r.stray = d.t.stray
  <2>1. RunSequence(h).stray = h.stray
    BY <1>0, <1>2, <1>3, RunRead DEF SameStore
  <2> QED
    BY <1>2, <2>1 DEF Repeat
<1> HIDE DEF r
<1>6. u.stray = r.stray /\ ~u.err /\ u.halted /\ u.kind = r.kind
  BY <1>4 DEF Target
<1>7. p = IF recognised
          THEN [d EXCEPT !.statetag = "XXXX", !.setup = TRUE, !.t = u,
                         !.target_chip_type = u.kind,
                         !.no_autoexec = @ \/ u.kind \in ManualKinds]
          ELSE [d EXCEPT !.statetag = "XXXX", !.setup = TRUE, !.t = u]
  BY <1>0 DEF Probe, u, r, h, Device
<1> HIDE DEF u, p
<1>8. CASE recognised
  <2>1. /\ p.t = u /\ p.statetag = "XXXX"
        /\ p.no_autoexec = (d.no_autoexec \/ u.kind \in ManualKinds)
    BY <1>0, <1>7, <1>8 DEF Device
  <2> QED
    BY <1>5, <1>6, <1>8, <2>1 DEF AutoUsable, p
<1>9. CASE ~recognised
  <2>1. p.t = u /\ p.statetag = "XXXX"
    BY <1>0, <1>7, <1>9 DEF Device
  <2> QED
    BY <1>5, <1>6, <1>9, <2>1 DEF p
<1> QED
  BY <1>8, <1>9

\* So an identification in the middle of a read sequence runs no stray program.
LEMMA IdentifyRunsItsOwn ==
  ASSUME NEW d, Good(d), d.setup, d.statetag = "RDSQ", NEW outcome \in Outcomes
  PROVE  Identify(d, outcome).t.stray = d.t.stray
<1> DEFINE s == Attach(d, outcome)
           recognised == outcome # "unrecognised"
           p == Probe(s, recognised)
<1>0. d \in Device
  BY DEF Good
<1>1. Good(s) /\ s.setup /\ s.statetag = "RDSQ" /\ s.t.stray = d.t.stray
  <2>1. CASE d.opmode
    BY <2>1 DEF Attach
  <2>2. CASE ~d.opmode
    <3> DEFINE found == outcome # "not_found"
    <3>1. s = InitializeSWDSWIOOf(d, found, TRUE) /\ found \in BOOLEAN
      BY <2>2 DEF Attach
    <3>2. InitializeSWDSWIOOf(d, found, TRUE).setup
      BY <1>0 DEF InitializeSWDSWIOOf, Device
    <3>3. /\ SameStore(InitializeSWDSWIOOf(d, found, TRUE).t, d.t)
          /\ InitializeSWDSWIOOf(d, found, TRUE).statetag = d.statetag
      <4>1. InitializeSWDSWIOOf(d, found, TRUE).statetag = d.statetag
        BY <1>0 DEF InitializeSWDSWIOOf, Device
      <4>2. SameStore(InitializeSWDSWIOOf(d, found, TRUE).t, d.t)
        <5>1. found \in BOOLEAN
          OBVIOUS
        <5> HIDE DEF found
        <5> DEFINE t == [d.t EXCEPT !.err =
                           IF found /\ TRUE /\ d.t.kind \in TwoWireKinds THEN FALSE ELSE @]
        <5>2. InitializeSWDSWIOOf(d, found, TRUE).t = t
          BY <1>0 DEF InitializeSWDSWIOOf, Device
        <5> QED
          BY <1>0, <5>2, DeviceParts DEF Target, SameStore
      <4> QED
        BY <4>1, <4>2
    <3> HIDE DEF found, s
    <3> QED
      BY <1>0, <3>1, <3>2, <3>3, InitializeSWDSWIOGood DEF SameStore
  <2> QED
    BY <2>1, <2>2
<1> HIDE DEF s
<1>2. /\ Good(p) /\ p.t.stray = d.t.stray /\ ~p.t.err /\ p.t.halted
      /\ p.statetag = "XXXX" /\ (recognised => AutoUsable(p))
  <2>1. Good(p)
    BY <1>1, ProbeGood DEF Good
  <2> QED
    BY <1>1, <2>1, ProbeRunsTheLoaded
<1> HIDE DEF p
<1>3. recognised => SetClock(p, outcome).t.stray = d.t.stray
  BY <1>2, SetClockRunsItsOwn DEF SequenceTags
<1> QED
  BY <1>1, <1>2, <1>3 DEF Identify, s, p

\* Nor does a ReadWord that identifies the chip in the middle of a sequence.
LEMMA ReadWordRunsItsOwn ==
  ASSUME NEW d, Good(d), NEW sn, Cursor(d, sn), Fresh(d, sn), NEW a \in Addr, d.setup,
         ~StoreNeedsChip(d), NEW outcome \in Outcomes, NEW glitch \in Glitches,
         ReadWordOf(d, a, outcome, glitch).dev.setup
  PROVE  ReadWordOf(d, a, outcome, glitch).dev.t.stray = d.t.stray
<1> DEFINE r == ReadWordOf(d, a, outcome, glitch)
<1>0. d \in Device
  BY DEF Good
<1>1. CASE ~ReadNeedsChip(d, a)
  <2>1. r.dev.setup => SameStore(r.dev.t, d.t)
    BY <1>1, ReadWordOfCursor
  <2> QED
    BY <2>1 DEF SameStore
<1>2. CASE ReadNeedsChip(d, a)
  <2> DEFINE i == Identify(d, outcome)
             s == [i EXCEPT !.statetag = "XXXX"]
             o == ReadWordKnown(s, a, glitch)
  <2>1. d.statetag = "RDSQ"
    BY <1>2 DEF ReadNeedsChip, StoreNeedsChip, SequenceTags
  <2>2. i \in Device /\ i.t.stray = d.t.stray
    BY <2>1, IdentifyGood, IdentifyRunsItsOwn DEF Good
  <2>3. CASE outcome \in Failures
    BY <1>2, <2>2, <2>3 DEF ReadWordOf, GivesUp, Refused, Result
  <2>4. CASE outcome \notin Failures
    <3>1. r = Sent(s, o, "link")
      BY <1>2, <2>4 DEF ReadWordOf, GivesUp, Identified
    <3> HIDE DEF i
    <3>2. s \in Device /\ s.t.stray = d.t.stray /\ s.statetag = "XXXX"
      BY <2>2 DEF Device, Tags
    <3> HIDE DEF s
    <3>3. Good(s) /\ Cursor(s, StatusOf(s))
      <4>1. s.statetag \notin SequenceTags
        BY <3>2 DEF SequenceTags
      <4>2. Cursor(s, StatusOf(s))
        BY <4>1, QuietCursor
      <4> QED
        BY <3>2, <4>2, VoidIsTruthful DEF Good
    <3>4. Good(o.dev) /\ (o.dev.setup => SameStore(o.dev.t, s.t))
      BY <3>3, StatusOfIsFresh, ReadWordKnownGood, ReadWordCursor
    <3> HIDE DEF o
    <3>5. r.dev.setup
      OBVIOUS
    <3> HIDE DEF r
    <3>6. s.opmode /\ r = o
      BY <3>1, <3>2, <3>4, <3>5, SentCursor DEF Good
    <3>7. r.dev.t.stray = d.t.stray
      BY <3>2, <3>4, <3>5, <3>6 DEF SameStore
    <3> QED
      BY <3>7 DEF r
  <2> QED
    BY <2>3, <2>4
<1> QED
  BY <1>1, <1>2

\* No step of the programmer makes the target run a mixture of two programs, or a
\* program with another's pointers, as long as nothing outside the cache disturbed
\* it.  An identification the host asks for, or WriteWord makes, is left out: it touches
\* DATA0 before it disables autoexec.  One that ReadWord makes in the middle of a read
\* sequence (981-985) is not: there the probe runs the read program that is loaded.
THEOREM RunsNoStrayProgram == Spec => NoStrayProgram
<1>1. CursorInv /\ [Next]_vars
        => [dev.setup /\ dev'.setup /\ ~StoreNeedsChip(dev)
            => dev'.t.stray = dev.t.stray \/ DetermineChip]_vars
  <2> SUFFICES ASSUME CursorInv, Next, dev.setup, dev'.setup, ~StoreNeedsChip(dev),
                      ~DetermineChip
               PROVE  dev'.t.stray = dev.t.stray
    OBVIOUS
  <2>0. Good(dev) /\ Cursor(dev, seen) /\ Fresh(dev, seen)
    BY CursorIsInStep
  <2>1. ASSUME NEW a \in Addr, ReadWord(a) PROVE dev'.t.stray = dev.t.stray
    <3>1. PICK outcome \in IdentificationsOf(dev, ReadNeedsChip(dev, a)), glitch \in Glitches :
            dev' = ReadWordOf(dev, a, outcome, glitch).dev
      BY <2>1 DEF ReadWord, Becomes
    <3>2. outcome \in Outcomes
      BY IdentificationsAreOutcomes
    <3> QED
      BY <2>0, <3>1, <3>2, ReadWordRunsItsOwn
  <2>2. ASSUME NEW a \in Addr, NEW v \in Words, WriteWord(a, v)
        PROVE  dev'.t.stray = dev.t.stray
    <3>1. PICK outcome \in IdentificationsOf(dev, StoreNeedsChip(dev)), glitch \in Glitches :
            dev' = WriteWordOf(dev, a, v, outcome, glitch).dev
      BY <2>2 DEF WriteWord, Becomes
    <3> DEFINE e == WriteWordOf(dev, a, v, outcome, glitch).dev
    <3>2. v \in Value /\ outcome \in Outcomes
      BY IdentificationsAreOutcomes DEF Value
    <3>3. e.setup => StoreNeedsChip(dev) \/ e.t.stray = dev.t.stray
      <4>1. LET r == WriteWordOf(dev, a, v, outcome, glitch) IN
            /\ \A any : Cursor(r.dev, any)
            /\ r.exact => /\ r.dev.t.mem[a] = v
                          /\ StoreNeedsChip(dev) \/ r.dev.t.mem = [dev.t.mem EXCEPT ![a] = v]
            /\ r.dev.setup => StoreNeedsChip(dev) \/ r.dev.t.stray = dev.t.stray
        BY <2>0, <3>2, WriteWordOfCursor
      <4> QED
        BY <4>1
    <3> HIDE DEF e
    <3>4. dev' = e
      BY <3>1 DEF e
    <3> QED
      BY <3>3, <3>4
  <2> QED
    BY <2>1, <2>2, OtherCallsRunTheirOwn, IdleRunsNothing DEF Next
<1> QED
  BY <1>1, SpecCursorInv, PTL DEF Spec, NoStrayProgram
===============================================================================
