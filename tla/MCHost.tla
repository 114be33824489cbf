------------------------------- MODULE MCHost -------------------------------
(***************************************************************************)
(* The monitor's queue, the run loops that poll it, the memory views it is *)
(* given and the serial terminal, each on its own: `unit' is the one this  *)
(* behaviour is of.                                                        *)
(***************************************************************************)
EXTENDS MonitorQueue, RunLoops, MonitorView, Vt100

-----------------------------------------------------------------------------
\* The strings the guest writes: single characters and controls, and control
\* sequences, some of them cut short, too long or with too many parameters.
Controls == {"^A", "^D", "^E", "^S", "^X", "BS", "HT", "LF", "FF", "CR", "SO", "^V"}
PlainStrings == {<<"ESC", c>> : c \in {"D", "E", "M", "c", "7"}}
SetStrings == {<<"ESC", p, s>> : p \in {"(", ")"}, s \in {"0", "A"}}
ShortStrings == {<<"ESC", "[", f>> : f \in {"H", "J", "K", "M", "m", "r", "s", "u", "c", "L"}}
ParamStrings == {<<"ESC", "[", p, f>> : p \in {"1", "2"},
                                    f \in {"A", "B", "C", "D", "J", "K", "L", "M", "P", "@"}}
OtherStrings == {<<"ESC", "[", "2", ";", "3", "r">>, <<"ESC", "[", "1", ";", "2", "r">>,
           <<"ESC", "[", "2", ";", "9", "r">>, <<"ESC", "[", "8", ";", "9", "r">>,
           <<"ESC", "[", "3", ";", "2", "H">>, <<"ESC", "[", "2", "f">>,
           <<"ESC", "[", "0", "J">>, <<"ESC", "[", "6", "n">>, <<"ESC", "[", "5", "n">>,
           <<"ESC", "[", "5", "m">>, <<"ESC", "[", "5", ";", "2", "5", "m">>,
           <<"ESC", "[", "?", "6", "h">>, <<"ESC", "[", "?", "6", "l">>,
           <<"ESC", "[", "?", "2", "5", "l">>, <<"ESC", "[", "?", "2", "5", "h">>,
           <<"ESC", "[", "9", "9", "9", "9", "9">>, <<"ESC", "[", "2", ";">>,
           <<"ESC", "[", "1">> \o [i \in 1..MaxParams |-> ";"]}
\* A region and then a place in or outside it, or a mode.
RegionStrings == {<<"ESC", "[", p, ";", q, "r">> \o s :
                    p \in {"1", "2"}, q \in {"2", "3"},
                    s \in {<<"ESC", "[", "3", "H">>, <<"ESC", "[", "2", ";", "2", "H">>,
                           <<"ESC", "[", "?", "6", "h">>, <<"^X">>}}
TermStrings == {<<c>> : c \in Controls \cup {"x"}}
             \cup PlainStrings \cup SetStrings \cup ShortStrings \cup ParamStrings
             \cup OtherStrings \cup RegionStrings

-----------------------------------------------------------------------------
VARIABLE unit

HostInit ==
  /\ unit \in {"queue", "loops", "view", "term"}
  /\ Init
  /\ LoopInit
  /\ ViewInit
  /\ TermInit
  /\ unit # "queue" => backend = "none" /\ posix
  /\ unit # "loops" => loop = atari400 /\ ~host.noShutdown
  /\ unit # "view" => machine.of = "chip8"

HostNext ==
  /\ UNCHANGED unit
  /\ \/ unit = "queue" /\ Next /\ UNCHANGED <<loopVars, viewVars, termVars>>
     \/ unit = "loops" /\ (LoopNext \/ LoopOver) /\ UNCHANGED <<vars, viewVars, termVars>>
     \/ unit = "view" /\ ViewNext /\ UNCHANGED <<vars, loopVars, termVars>>
     \/ unit = "term" /\ TermNext /\ UNCHANGED <<vars, loopVars, viewVars>>

\* The monitor's threads are scheduled as in MonitorQueue's FairSpec.
HostSpec ==
  /\ HostInit /\ [][HostNext]_<<unit, vars, loopVars, viewVars, termVars>>
  /\ WF_vars(ReaderRuns) /\ SF_vars(ChunkEnds) /\ WF_vars(EmulatorRuns)
=============================================================================
