------------------------------ MODULE RunLoops ------------------------------
(***************************************************************************)
(* The run loops of the machines, under hardware/machine: what each of     *)
(* them makes of the window's events, of the commands gemu_monitor_poll    *)
(* hands out and of breakpoints and watchpoints, instruction by            *)
(* instruction, with the scanline and frame steps of the Atari 2600.       *)
(*                                                                         *)
(* All loops have one cycle: window events, commands, a frame.  What they  *)
(* do differently is in a record for each machine, its `loop':             *)
(*   window   what the window's close button does: "leaves" the loop at    *)
(*            once, "marks" it to end after the commands, "asks" whether   *)
(*            shutdown is allowed, "nothing"                               *)
(*   key      the window has a reset key                                    *)
(*   quit     what the command does: "leaves" the queue, "drains" it,      *)
(*            "exits" though -no-shutdown was given                        *)
(*   late     a loop marked to end may still run the frame                 *)
(*   break    exec breakpoints are looked for in frames                    *)
(*   watch    the bus looks for watchpoints                                *)
(*   after    a pause is looked for after each instruction of a frame      *)
(*   step     "counts", "stops" at breakpoints too, is always of "one"     *)
(*   halts    a fault can halt the processor until it is reset or stepped  *)
(*   exits    the guest can ask for the end                                *)
(*   defers   a reset waits for the end of the commands and costs a frame  *)
(*   raster   has scanline and frame steps                                 *)
(* "One instruction" is a machine cycle in the frames of the 1802 machines *)
(* and in the destroyer's steps, a turn of the game in the TV-Game.        *)
(***************************************************************************)
EXTENDS Naturals

CONSTANTS LoopAddr,    \* addresses of instructions, 0 after a reset
          FrameLen,    \* instructions of a frame
          MaxCount     \* largest count of a step

ASSUME LoopSizes == 0 \in LoopAddr /\ FrameLen \in Nat /\ MaxCount \in Nat

VARIABLES loop,        \* the machine's loop
          host,        \* the loop's state
          guest,       \* the processor's state
          granted      \* history: instructions the user has yet allowed

loopVars == <<loop, host, guest, granted>>

\* Any number, until something stops the machine.
Freely == MaxCount + 1

Plain == [window |-> "leaves", key |-> TRUE, quit |-> "leaves", late |-> FALSE,
          break |-> TRUE, watch |-> FALSE, after |-> TRUE, step |-> "counts",
          halts |-> FALSE, exits |-> FALSE, defers |-> FALSE, raster |-> FALSE]

\* A frame of machine cycles in which nothing is looked for.
Blind == [Plain EXCEPT !.break = FALSE, !.after = FALSE]

generic_6502 == [Plain EXCEPT !.window = "marks", !.key = FALSE, !.watch = TRUE]
apple1       == [Plain EXCEPT !.window = "marks", !.key = FALSE, !.watch = TRUE, !.after = FALSE]
atari2600    == [Plain EXCEPT !.watch = TRUE, !.raster = TRUE]
atari400     == Plain
kim1         == [Plain EXCEPT !.window = "marks", !.watch = TRUE]
magicfly     == [Plain EXCEPT !.after = FALSE]
fiveclown    == [Plain EXCEPT !.after = FALSE]
um6578       == Plain
nes          == [Plain EXCEPT !.watch = TRUE]
lagonda      == [Plain EXCEPT !.watch = TRUE]
generic_z80  == [Plain EXCEPT !.window = "marks", !.key = FALSE, !.watch = TRUE, !.exits = TRUE]
ibm5150      == [Plain EXCEPT !.window = "marks", !.quit = "drains", !.after = FALSE]
i2000        == [Plain EXCEPT !.window = "asks", !.watch = TRUE, !.step = "stops", !.halts = TRUE]
generic_ia64 == [Plain EXCEPT !.window = "nothing", !.key = FALSE, !.quit = "exits", !.watch = TRUE,
                              !.step = "stops", !.halts = TRUE]
destroyer    == Blind
vip          == Blind
pecom32      == [Blind EXCEPT !.quit = "drains"]
studio2      == [Blind EXCEPT !.quit = "drains", !.defers = TRUE]
chip8        == Blind
chip8_bench  == [Blind EXCEPT !.window = "nothing", !.key = FALSE, !.quit = "drains"]
tvgame6      == [Blind EXCEPT !.window = "asks", !.late = TRUE, !.step = "one"]
tvgame6_none == [Blind EXCEPT !.window = "nothing", !.key = FALSE, !.step = "one"]

Loops == {generic_6502, apple1, atari2600, atari400, kim1, magicfly, fiveclown, um6578, nes,
          lagonda, generic_z80, ibm5150, i2000, generic_ia64, destroyer, vip, pecom32, studio2,
          chip8, chip8_bench, tvgame6, tvgame6_none}

LoopTypeOK ==
  /\ loop \in Loops
  /\ host \in [at : {"window", "commands", "ready", "step", "frame", "idle", "done"}, noShutdown : BOOLEAN,
               paused : BOOLEAN, quit : BOOLEAN, reset : BOOLEAN, left : 0 .. FrameLen + MaxCount,
               lines : 0 .. MaxCount, frames : 0 .. MaxCount, beam : BOOLEAN]
  /\ guest \in [pc : LoopAddr, breaks : SUBSET LoopAddr, skip : BOOLEAN, skipAddr : LoopAddr,
                halted : BOOLEAN, exit : BOOLEAN]
  /\ granted \in 0 .. Freely

LoopInit ==
  /\ loop \in Loops
  /\ \E ns \in BOOLEAN :
       host = [at |-> "window", noShutdown |-> ns, paused |-> FALSE, quit |-> FALSE,
               reset |-> FALSE, left |-> 0, lines |-> 0, frames |-> 0, beam |-> FALSE]
  /\ guest = [pc |-> 0, breaks |-> {}, skip |-> FALSE, skipAddr |-> 0, halted |-> FALSE,
              exit |-> FALSE]
  /\ granted = Freely

----------------------------------------------------------------------------
\* The window's events.

ResetGuest(g) == [g EXCEPT !.pc = 0, !.halted = FALSE, !.exit = FALSE]

NoEvent ==
  /\ host.at = "window"
  /\ host' = [host EXCEPT !.at = "commands"]
  /\ UNCHANGED <<loop, guest, granted>>

Close ==
  /\ host.at = "window"
  /\ host' = CASE loop.window = "leaves" -> [host EXCEPT !.at = "done", !.quit = TRUE]
               [] loop.window = "marks"  -> [host EXCEPT !.at = "commands", !.quit = TRUE]
               [] loop.window = "asks"   -> [host EXCEPT !.at = "commands", !.quit = ~host.noShutdown]
  /\ granted' = IF host'.quit THEN 0 ELSE granted
  /\ UNCHANGED <<loop, guest>>

\* gemu_display_reset_requested
ResetKey ==
  /\ host.at = "window" /\ loop.key
  /\ host' = [host EXCEPT !.at = "commands", !.reset = loop.defers]
  /\ guest' = IF loop.defers THEN guest ELSE ResetGuest(guest)
  /\ UNCHANGED <<loop, granted>>

----------------------------------------------------------------------------
\* Commands.

Pauses == host' = [host EXCEPT !.paused = TRUE] /\ granted' = 0
Continues == host' = [host EXCEPT !.paused = FALSE] /\ granted' = Freely

Commanded(c) == host.at = "commands" /\ c /\ UNCHANGED loop

CmdStop == Commanded(Pauses /\ UNCHANGED guest)
CmdCont == Commanded(Continues /\ UNCHANGED guest)

\* The commands of a2600_debug.c that go on for some scanlines or frames.
ContFor(n, what) ==
  /\ loop.raster
  /\ Commanded(UNCHANGED guest)
  /\ host' = IF what = "lines" THEN [host EXCEPT !.paused = FALSE, !.lines = n]
             ELSE [host EXCEPT !.paused = FALSE, !.frames = n]
  /\ granted' = Freely

\* breakline: stop whenever the beam reaches a line.
BreakLine(on) ==
  /\ loop.raster
  /\ Commanded(host' = [host EXCEPT !.beam = on] /\ UNCHANGED <<guest, granted>>)

CmdQuit ==
  /\ Commanded(UNCHANGED guest)
  /\ IF host.noShutdown /\ loop.quit # "exits" THEN Pauses
     ELSE /\ host' = [host EXCEPT !.quit = TRUE,
                                  !.at = IF loop.quit = "drains" THEN "commands" ELSE "ready"]
          /\ granted' = 0

CmdReset ==
  Commanded(/\ guest' = IF loop.defers THEN guest ELSE ResetGuest(guest)
            /\ host' = [host EXCEPT !.reset = loop.defers]
            /\ UNCHANGED granted)

SetBreaks(b) ==
  Commanded(guest' = [guest EXCEPT !.breaks = b] /\ UNCHANGED <<host, granted>>)

\* A processor that a fault halted is tried again.
CmdStep(n) ==
  Commanded(/\ host' = [host EXCEPT !.paused = TRUE, !.at = "step",
                                    !.left = IF loop.step = "one" THEN 1 ELSE n]
            /\ guest' = [guest EXCEPT !.halted = FALSE]
            /\ granted' = n)

----------------------------------------------------------------------------
\* Instructions.

\* gemu_monitor_check_exec, with the one instruction it lets through after a stop.
Resumes == guest.skip /\ guest.pc = guest.skipAddr
StopsHere == guest.pc \in guest.breaks /\ ~Resumes

SkipAfterCheck(g, checked) ==
  IF checked /\ guest.breaks # {} THEN [g EXCEPT !.skip = FALSE] ELSE g

HitBreak ==
  /\ guest' = [guest EXCEPT !.skip = TRUE, !.skipAddr = guest.pc]
  /\ granted' = 0

\* An instruction goes on at `pc'; it faults, or asks for the end.
Executed(checked, pc, fault, exit) ==
  /\ fault => loop.halts
  /\ exit => loop.exits
  /\ guest' = SkipAfterCheck([guest EXCEPT !.pc = IF fault THEN @ ELSE pc, !.halted = fault,
                                           !.exit = @ \/ exit], checked)

CommandsOver ==
  /\ host.at \in {"commands", "ready"}
  /\ UNCHANGED <<loop, granted>>
  /\ \/ /\ host.quit /\ (~loop.late \/ host.paused)
        /\ host' = [host EXCEPT !.at = "done"] /\ UNCHANGED guest
     \/ /\ ~host.quit /\ host.reset
        /\ host' = [host EXCEPT !.at = "window", !.reset = FALSE]
        /\ guest' = ResetGuest(guest)
     \/ /\ ~host.quit /\ ~host.reset /\ (host.paused \/ guest.halted)
        /\ host' = [host EXCEPT !.at = "idle"] /\ UNCHANGED guest
     \/ /\ (~host.quit \/ loop.late) /\ ~host.reset /\ ~host.paused /\ ~guest.halted
        /\ \E n \in 0 .. FrameLen : host' = [host EXCEPT !.at = "frame", !.left = n]
        /\ UNCHANGED guest

InFrame == host.at = "frame" /\ host.left > 0 /\ ~guest.exit

BreakInFrame ==
  /\ InFrame /\ loop.break /\ StopsHere
  /\ HitBreak
  /\ host' = [host EXCEPT !.at = "idle", !.paused = TRUE, !.left = 0]
  /\ UNCHANGED loop

\* mutant: a pause is looked for between frames only
MRunInFrame(pc, fault, exit, seen, line) ==
  /\ InFrame /\ (loop.break => ~StopsHere)
  /\ seen => loop.watch
  /\ line # "same" => loop.raster
  /\ line = "break" => host.beam
  /\ Executed(loop.break, pc, fault, exit)
  /\ LET raster == line = "break" \/ (line = "next" /\ host.lines = 1)
         stops == seen \/ raster
     IN /\ host' = [host EXCEPT !.paused = @ \/ stops,
                                !.lines = IF line # "same" /\ @ > 0 THEN @ - 1 ELSE @,
                                !.left = @ - 1,
                                !.at = IF raster \/ fault THEN "idle" ELSE @]
        /\ granted' = IF stops THEN 0 ELSE granted
  /\ UNCHANGED loop

\* `seen' says that an access was watched; the beam is on the "same" line as
\* before, on the "next" one, or on the one it is to stop at.
RunInFrame(pc, fault, exit, seen, line) ==
  /\ InFrame /\ (loop.break => ~StopsHere)
  /\ seen => loop.watch
  /\ line # "same" => loop.raster
  /\ line = "break" => host.beam
  /\ Executed(loop.break, pc, fault, exit)
  /\ LET raster == line = "break" \/ (line = "next" /\ host.lines = 1)
         stops == seen \/ raster
     IN /\ host' = [host EXCEPT !.paused = @ \/ stops,
                                !.lines = IF line # "same" /\ @ > 0 THEN @ - 1 ELSE @,
                                !.left = @ - 1,
                                !.at = IF (loop.after /\ stops) \/ fault THEN "idle" ELSE @]
        /\ granted' = IF stops THEN 0 ELSE granted
  /\ UNCHANGED loop

\* A whole frame has been run: a26_debug_frame_done counts it.
FrameOver ==
  /\ host.at = "frame" /\ ~InFrame
  /\ LET last == loop.raster /\ host.frames = 1
     IN /\ host' = [host EXCEPT !.at = "idle", !.left = 0, !.paused = @ \/ last,
                                !.frames = IF host.frames > 0 THEN @ - 1 ELSE @]
        /\ granted' = IF last THEN 0 ELSE granted
  /\ UNCHANGED <<loop, guest>>

\* The end of the loop's body, with the guest's own request to end.
BodyOver ==
  /\ host.at = "idle"
  /\ guest' = [guest EXCEPT !.exit = FALSE]
  /\ LET quits == host.quit \/ (guest.exit /\ ~host.noShutdown)
     IN host' = [host EXCEPT !.at = IF quits THEN "done" ELSE "window", !.quit = quits, !.left = 0,
                             !.paused = @ \/ (guest.exit /\ host.noShutdown)]
  /\ granted' = IF guest.exit THEN 0 ELSE granted
  /\ UNCHANGED loop

BreakInStep ==
  /\ host.at = "step" /\ loop.step = "stops" /\ StopsHere
  /\ HitBreak
  /\ host' = [host EXCEPT !.at = "commands", !.left = 0]
  /\ UNCHANGED loop

RunInStep(pc, fault, exit) ==
  /\ host.at = "step" /\ (loop.step = "stops" => ~StopsHere)
  /\ Executed(loop.step = "stops", pc, fault, exit)
  /\ LET over == fault \/ host.left = 1
     IN host' = [host EXCEPT !.left = IF fault THEN 0 ELSE @ - 1,
                             !.at = IF over THEN "commands" ELSE @]
  /\ granted' = IF fault \/ granted = 0 THEN 0 ELSE granted - 1
  /\ UNCHANGED loop

\* An instruction is executed.
LoopRuns ==
  \E pc \in LoopAddr, fault, exit \in BOOLEAN :
    \/ RunInStep(pc, fault, exit)
    \/ \E seen \in BOOLEAN, line \in {"same", "next", "break"} : RunInFrame(pc, fault, exit, seen, line)

LoopNext ==
  \/ NoEvent \/ (loop.window # "nothing" /\ Close) \/ ResetKey
  \/ CmdStop \/ CmdCont \/ CmdQuit \/ CmdReset
  \/ \E b \in SUBSET LoopAddr : SetBreaks(b)
  \/ \E n \in 1 .. MaxCount : CmdStep(n) \/ ContFor(n, "lines") \/ ContFor(n, "frames")
  \/ \E on \in BOOLEAN : BreakLine(on)
  \/ CommandsOver \/ BreakInFrame \/ FrameOver \/ BodyOver \/ BreakInStep
  \/ LoopRuns

\* The loop was left: the machine's run function has returned.
LoopOver == host.at = "done" /\ UNCHANGED loopVars

----------------------------------------------------------------------------
(***************************************************************************)
(* The user's commands bound what runs.  No instruction is executed after  *)
(* stop, after a breakpoint or a watchpoint was hit, or after the end was  *)
(* asked for; and a step runs its count, no less and no more, unless a     *)
(* fault or a breakpoint ends it.                                          *)
(*                                                                         *)
(* Three loops are excused: the Apple 1 looks for a pause once a frame,    *)
(* the TV-Game with a window plays one more turn before it ends, and both  *)
(* TV-Games take any count of a step for one.                              *)
(***************************************************************************)
NothingUnasked ==
  [][ LoopRuns => \/ granted > 0
                  \/ loop.late /\ host.quit
                  \/ loop.watch /\ ~loop.after /\ host.at = "frame" ]_loopVars

StepsAll ==
  host.at = "window" /\ host.paused /\ loop.step # "one" => granted = 0

RunsAsAsked == NothingUnasked /\ []StepsAll
=============================================================================
