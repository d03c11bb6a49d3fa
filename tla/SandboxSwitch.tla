--------------------------- MODULE SandboxSwitch ---------------------------
(***************************************************************************)
(* Hot reloading of a sandbox (idf_sandbox).  app_main's loop calls fnIdle *)
(* of the sandbox that g_SandboxStruct points at.  The USB task, which     *)
(* preempts it, carries out the commands of report 0xaa and 0xab: write    *)
(* memory, call a function, switch the sandbox.  On the host,              *)
(* sandbox_upload switches the sandbox off, waits a moment, writes the new *)
(* one over it, calls its sandbox_main and switches it on; it sends again  *)
(* every command it gets no answer for.                                    *)
(*                                                                         *)
(* The sandboxes are builds of one program: each is linked to the same     *)
(* memory.  The wait of 50 ms is the only thing that keeps the loop and    *)
(* the upload apart.  It lets the loop get from its test to its call, but  *)
(* an fnIdle may last longer: those of the repository's sandboxes block in *)
(* vTaskDelay( 100 ).  What such an fnIdle does when it wakes up among     *)
(* another build's code is not modelled: here it returns.                  *)
(*                                                                         *)
(* A definition marked "slip" is a likely mistake in the operator after it *)
(* and is part of no behaviour: with it in the operator's place, TLC finds *)
(* one of the properties violated.                                         *)
(***************************************************************************)
EXTENDS Integers

CONSTANTS
  Builds,    \* the sandboxes there are
  Ticking,   \* those with an fnIdle
  Decoms,    \* those with an fnDecom
  Chunks,    \* how many writes the upload of a sandbox takes
  MaxTries,  \* how often a command is sent again (10 in the code)
  None       \* a null pointer; memory that was never written

ASSUME SandboxSwitchAssumption ==
  /\ Ticking \subseteq Builds /\ Decoms \subseteq Builds
  /\ Chunks \in Nat \ {0} /\ MaxTries \in Nat
  /\ None \notin Builds

VARIABLES
  current,  \* g_SandboxStruct: the build whose sandbox_mode it points at
  memory,   \* which build's bytes each chunk of the sandbox memory holds
  up,       \* the builds whose sandbox_main was called and that were, since,
            \*   neither decommissioned nor overwritten
  main,     \* where app_main's loop stands, and the build it took for current
  host      \* where sandbox_upload stands, the build it uploads, the chunk,
            \*   tries, and (ghost) whether it switched the sandbox on twice

vars == <<current, memory, up, main, host>>
device == <<current, memory, up>>

Commands == {"disable", "write", "clear", "execute", "enable"}

Init ==
  /\ current = None
  /\ memory = [c \in 1 .. Chunks |-> None]
  /\ up = {}
  /\ main = [at |-> "read", sandbox |-> None]
  /\ \E b \in Builds :
       host = [at |-> "failed", build |-> b, chunk |-> 1, tries |-> 0, twice |-> FALSE]

-----------------------------------------------------------------------------
(***************************************************************************)
(* app_main's loop.  The condition and the call use one load of            *)
(* g_SandboxStruct, which is not volatile, and one of its fnIdle.          *)
(***************************************************************************)
ReadMode ==
  /\ main.at = "read" /\ current # None
  /\ main' = [at |-> "found", sandbox |-> current]
  /\ UNCHANGED <<device, host>>

CallIdle ==
  /\ main.at = "found"
  /\ main' = IF main.sandbox \in Ticking THEN [main EXCEPT !.at = "tick"]
             ELSE [at |-> "read", sandbox |-> None]
  /\ UNCHANGED <<device, host>>

IdleReturns ==
  /\ main.at = "tick"
  /\ main' = [at |-> "read", sandbox |-> None]
  /\ UNCHANGED <<device, host>>

-----------------------------------------------------------------------------
(***************************************************************************)
(* handle_advanced_usb_control_set, in the USB task.                       *)
(***************************************************************************)
\* Slip: nothing to switch from, so nothing is switched.
SwitchFromSandboxOnly(value) ==
  /\ current' = IF current = None THEN None ELSE value
  /\ up' = up \ ({current} \cap Decoms)
  /\ UNCHANGED memory

\* AUSB_CMD_SWITCH_MODE: the present sandbox is decommissioned first, also if it
\* is the one to switch to.
SwitchMode(value) ==
  /\ current' = value
  /\ up' = up \ ({current} \cap Decoms)
  /\ UNCHANGED memory

WriteRam(chunk, build) ==
  /\ memory' = [memory EXCEPT ![chunk] = build]
  /\ up' = up \ {memory[chunk]}
  /\ UNCHANGED current

\* AUSB_CMD_EXEC_RAM, of sandbox_main.
ExecRam(build) == up' = up \cup {build} /\ UNCHANGED <<current, memory>>

\* A command that was sent once more than allowed fails whatever came of it.
Sent(answered, h, next) ==
  host' = IF h.tries > MaxTries THEN [h EXCEPT !.at = "failed"]
          ELSE IF ~answered THEN [h EXCEPT !.tries = @ + 1]
          ELSE [h EXCEPT !.at = next, !.tries = 0]

\* The command may get lost, or its answer.
Lost == Sent(FALSE, host, host.at) /\ UNCHANGED device

-----------------------------------------------------------------------------
(***************************************************************************)
(* sandbox_upload, one run after the other.                                *)
(***************************************************************************)
\* Slip: the sandbox that runs is not switched off first.
StartByWriting(b) ==
  /\ host.at \in {"failed", "done"}
  /\ host' = [host EXCEPT !.at = "write", !.build = b, !.chunk = 1, !.tries = 0]
  /\ UNCHANGED <<device, main>>

Start(b) ==
  /\ host.at \in {"failed", "done"}
  /\ host' = [host EXCEPT !.at = "disable", !.build = b, !.chunk = 1, !.tries = 0]
  /\ UNCHANGED <<device, main>>

Disable ==
  /\ host.at = "disable"
  /\ \/ Lost
     \/ \E answered \in BOOLEAN :
          SwitchMode(None) /\ Sent(answered, [host EXCEPT !.twice = FALSE], "wait")
  /\ UNCHANGED main

\* usleep( 50000 ): nothing tells the host where the loop is.
Wait ==
  /\ host.at = "wait"
  /\ main.at # "found"
  /\ host' = [host EXCEPT !.at = "write"]
  /\ UNCHANGED <<device, main>>

\* Slip: one chunk too many.
WriteOneMore ==
  /\ host.at = "write"
  /\ \E answered \in BOOLEAN :
       /\ WriteRam(host.chunk, host.build)
       /\ IF answered /\ host.tries <= MaxTries /\ host.chunk <= Chunks
          THEN host' = [host EXCEPT !.chunk = @ + 1, !.tries = 0]
          ELSE Sent(answered, host, "clear")
  /\ UNCHANGED main

Write ==
  /\ host.at = "write"
  /\ \/ Lost
     \/ \E answered \in BOOLEAN :
          /\ WriteRam(host.chunk, host.build)
          /\ IF answered /\ host.tries <= MaxTries /\ host.chunk < Chunks
             THEN host' = [host EXCEPT !.chunk = @ + 1, !.tries = 0]
             ELSE Sent(answered, host, "clear")
  /\ UNCHANGED main

\* ACMD_CMD_MEMSET, which clears nothing: each byte of its length is the top byte
\* of sandbox_bss_size.
Clear ==
  /\ host.at = "clear"
  /\ \E answered \in BOOLEAN : Sent(answered, host, "execute")
  /\ UNCHANGED <<device, main>>

\* Slip: the sandbox is switched on before its sandbox_main was called.
ExecuteLate ==
  /\ host.at = "execute"
  /\ \/ Lost
     \/ \E answered \in BOOLEAN :
          SwitchMode(host.build) /\ Sent(answered, host, "enable")
  /\ UNCHANGED main

Execute ==
  /\ host.at = "execute"
  /\ \/ Lost
     \/ \E answered \in BOOLEAN :
          ExecRam(host.build) /\ Sent(answered, host, "enable")
  /\ UNCHANGED main

Enable ==
  /\ host.at = "enable"
  /\ \/ Lost
     \/ \E answered \in BOOLEAN :
          /\ SwitchMode(host.build)
          /\ Sent(answered, [host EXCEPT !.twice = @ \/ current = host.build], "done")
  /\ UNCHANGED main

\* The user stops the upload.
Quit ==
  /\ host.at # "done"
  /\ host' = [host EXCEPT !.at = "failed"]
  /\ UNCHANGED <<device, main>>

\* The ESP32-S2 restarts; an upload under way loses its handle of the device.
Restart ==
  /\ current' = None /\ memory' = [c \in 1 .. Chunks |-> None] /\ up' = {}
  /\ main' = [at |-> "read", sandbox |-> None]
  /\ host' = [host EXCEPT !.at = IF @ = "done" THEN @ ELSE "failed"]

Upload == Disable \/ Wait \/ Write \/ Clear \/ Execute \/ Enable
Loop == ReadMode \/ CallIdle \/ IdleReturns
Next == Loop \/ Upload \/ (\E b \in Builds : Start(b)) \/ Quit \/ Restart

\* The loop yields to no task that stays ready for ever; an upload, once
\* started, goes on unless the user stops it.
Fairness == WF_vars(Loop) /\ WF_vars(Upload)
Spec == Init /\ [][Next]_vars /\ Fairness

-----------------------------------------------------------------------------
\* Every variable keeps its shape; the upload never writes outside the sandbox
\* memory (DoUpload's count of chunks).
TypeOK ==
  /\ current \in Builds \cup {None}
  /\ memory \in [1 .. Chunks -> Builds \cup {None}]
  /\ up \subseteq Builds
  /\ main \in [at: {"read", "found", "tick"}, sandbox: Builds \cup {None}]
  /\ host \in [at: Commands \cup {"wait", "clear", "done", "failed"}, build: Builds,
               chunk: 1 .. Chunks, tries: 0 .. MaxTries + 1, twice: BOOLEAN]

Holds(b) == \A c \in 1 .. Chunks : memory[c] = b

\* g_SandboxStruct never points into a sandbox that is partly written: neither
\* the reports it is asked to answer nor fnDecom meet another build's code,
\* wherever an upload is stopped, repeated or started over.
CurrentIsWhole == current # None => Holds(current)

\* "Give it a chance to exit." (sandbox_upload.c:191): after the wait app_main's
\* loop is in no fnIdle whose memory the host writes.
RunsWhatWasUploaded == main.sandbox # None => Holds(main.sandbox)

\* The sandbox that is switched on has been set up by its sandbox_main and not
\* been decommissioned, unless the answer to the switch was lost and the switch
\* repeated: then its fnDecom runs and it stays switched on.
CurrentIsUp == current # None /\ ~host.twice => current \in up

\* An upload comes to an end, and a sandbox that stays switched on gets its turn,
\* if no fnIdle was caught by an upload: one that was need not return.
UploadTakesEffect ==
  []RunsWhatWasUploaded =>
    /\ host.at = "disable" ~> host.at \in {"done", "failed"}
    /\ \A b \in Ticking :
         (host.at = "done" /\ host.build = b) ~>
           (current = b /\ main = [at |-> "tick", sandbox |-> b])
              \/ host.at # "done" \/ memory[Chunks] = None
=============================================================================
