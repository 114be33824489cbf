-------------------------------- MODULE Ia32 --------------------------------
(***************************************************************************)
(* IA-32 instructions of the Merced core (cpu/ia64/merced_ia32.c) and      *)
(* their restart.  A memory access whose translation is missing switches   *)
(* to the native handler with the instruction's own address kept; the      *)
(* handler inserts the translation and rfi runs the instruction again,     *)
(* over whatever the first attempt has already changed.                    *)
(*                                                                         *)
(* Memory is words on pages of two; an instruction's operand bytes are on  *)
(* the page of CodeWord.  `xcore' is the registers, the memory and the     *)
(* device behind the ports; `want' is history: what the instruction makes  *)
(* of the state it started in when nothing faults.  Words are 0 or 1,      *)
(* and the eight registers of PUSHA and POPA are three.  Left out, besides *)
(* what changes registers only (INC, DEC, LOOP, arithmetic between them,   *)
(* scalar IN and OUT), are OUTS and the #DE of a division.                 *)
(***************************************************************************)
EXTENDS Integers, FiniteSets

CONSTANT Ia32Words   \* words of data and stack, a multiple of 2

ASSUME Ia32Size == Ia32Words \in Nat /\ Ia32Words >= 4

VARIABLES xcore, mapped, op, want

ia32Vars == <<xcore, mapped, op, want>>

CodeWord  == Ia32Words
PageOf(a) == a \div 2
Ia32Pages == 0 .. PageOf(CodeWord)
NoPage    == -1
At(a)     == a % Ia32Words

Ia32Data   == 0 .. Ia32Words - 1
Ia32States ==
  [sp : Ia32Data, si : Ia32Data, di : Ia32Data, cx : Nat, cf : Nat, acc : Nat,
   mem : [Ia32Data -> Nat], dev : Nat, fault : Ia32Pages \cup {NoPage}]

Ia32Init ==
  /\ xcore = [sp |-> 1, si |-> 0, di |-> 3, cx |-> 2, cf |-> 1, acc |-> 1,
          mem |-> [a \in Ia32Data |-> a % 2], dev |-> 0, fault |-> NoPage]
  /\ mapped = {} /\ op = "none" /\ want = xcore

----------------------------------------------------------------------------
\* rb and wb: after a fault PSR.is is clear and every later access fails too.

Ok(s) == s.fault = NoPage

Touch(s, a, M) == IF ~Ok(s) \/ PageOf(a) \in M THEN s ELSE [s EXCEPT !.fault = PageOf(a)]

StoreAt(s, a, v, M) ==
  LET t == Touch(s, a, M) IN IF Ok(t) THEN [t EXCEPT !.mem[a] = v] ELSE t

MPush(s, v, M) ==
  LET t == StoreAt(s, At(s.sp - 1), v, M) IN IF Ok(s) THEN [t EXCEPT !.sp = At(@ - 1)] ELSE t

\* A push that faults puts the stack pointer back.
Push(s, v, M) ==
  LET t == StoreAt(s, At(s.sp - 1), v, M) IN IF Ok(t) THEN [t EXCEPT !.sp = At(@ - 1)] ELSE t

Pop(s, M) ==
  LET t == Touch(s, s.sp, M) IN IF Ok(t) THEN [t EXCEPT !.sp = At(@ + 1)] ELSE t

\* A register or flag written at a point the instruction reaches only unfaulted.
SetAcc(s, v) == IF Ok(s) THEN [s EXCEPT !.acc = v] ELSE s
SetCf(s, v) == IF Ok(s) THEN [s EXCEPT !.cf = v] ELSE s

\* `body', what one round makes of each state, once for every count, stopping at
\* the first that faults.
Repeat(s, body) ==
  LET it[n \in 0 .. s.cx] == IF n = 0 THEN s ELSE IF Ok(it[n - 1]) THEN body[it[n - 1]] ELSE it[n - 1]
  IN  it[s.cx]

\* REP MOVS, LODS and STOS write the count once, at the end.
CountAtEnd(s) == IF Ok(s) THEN [s EXCEPT !.cx = 0] ELSE s

----------------------------------------------------------------------------
\* The instructions, given the pages that translate.

XMov(s, M)     == SetAcc(Touch(s, s.di, M), s.mem[s.di])
XStore(s, M)   == StoreAt(s, s.di, s.acc, M)
XPush(s, M)    == Push(s, s.acc, M)
XPop(s, M)     == SetAcc(Pop(s, M), s.mem[s.sp])
XXchg(s, M)    == SetAcc(StoreAt(Touch(s, s.di, M), s.di, s.acc, M), s.mem[s.di])
XLoadFar(s, M) == SetAcc(Touch(Touch(s, s.si, M), At(s.si + 1), M), s.mem[s.si])
XCall(s, M)    == Push(s, 0, M)
XRet(s, M)     == Pop(s, M)

\* Group 1, NEG, INC and DEC of memory set the flags after the store.
Sum(s) == s.mem[s.di] + s.acc + s.cf
XGroup1(s, M) ==
  SetCf(StoreAt(Touch(s, s.di, M), s.di, Sum(s) % 2, M), Sum(s) \div 2)

\* The two-operand arithmetic and the shifts set them before it.
XAdcToMem(s, M) ==
  StoreAt(SetCf(Touch(s, s.di, M), Sum(s) \div 2), s.di, Sum(s) % 2, M)

XRotate(s, M) ==
  StoreAt(SetCf(Touch(s, s.di, M), s.mem[s.di]), s.di, s.cf, M)

\* An instruction of several pushes or pops keeps those that were done.
XPushAll(s, M) == Push(Push(Push(s, s.acc, M), s.sp % 2, M), s.cf, M)
XPopAll(s, M) ==
  SetAcc(Pop(Pop(Pop(s, M), M), M), s.mem[At(s.sp + 2)])
XCallFar(s, M) == Push(Push(s, 1, M), 0, M)
XRetFar(s, M)  == Pop(Pop(s, M), M)
XInt(s, M) ==
  LET t == Touch(Touch(Push(Push(Push(s, s.cf, M), 1, M), 0, M), 0, M), 1, M)
  IN  IF Ok(t) THEN [t EXCEPT !.cf = s.cf] ELSE t
XIret(s, M)   == SetCf(Pop(Pop(Pop(s, M), M), M), s.mem[At(s.sp + 2)])
XPopMem(s, M) == StoreAt(Pop(s, M), s.di, s.mem[s.sp], M)

\* RET imm16 pops before it fetches its operand.
XRetImm(s, M) == Pop(s, M)

\* REP INS probes its destination before it takes a word from the device, and
\* writes the count back every time round.
XRepIns(s, M) ==
  Repeat(s, [t \in Ia32States |->
    LET u == Touch(t, t.di, M)
    IN  IF Ok(u) THEN [u EXCEPT !.mem[t.di] = t.dev % 2, !.dev = @ + 1,
                                !.di = At(@ + 1), !.cx = @ - 1]
                 ELSE u])

XRepMovs(s, M) ==
  CountAtEnd(Repeat(s, [t \in Ia32States |->
    LET u == StoreAt(Touch(t, t.si, M), t.di, t.mem[t.si], M)
    IN  IF Ok(u) THEN [u EXCEPT !.si = At(@ + 1), !.di = At(@ + 1)] ELSE u]))

XRepStos(s, M) ==
  CountAtEnd(Repeat(s, [t \in Ia32States |->
    LET u == StoreAt(t, t.di, t.acc, M) IN IF Ok(u) THEN [u EXCEPT !.di = At(@ + 1)] ELSE u]))

XRepLods(s, M) ==
  CountAtEnd(Repeat(s, [t \in Ia32States |->
    LET u == SetAcc(Touch(t, t.si, M), t.mem[t.si])
    IN  IF Ok(u) THEN [u EXCEPT !.si = At(@ + 1)] ELSE u]))

\* INT 10h is served at once: a newline on a screen of rows 0 and 1 scrolls and
\* sets the cursor, a word on another page that is read first.
CursorWord == 2
XTeletype(s, M) ==
  LET row == s.mem[CursorWord] + 1
      t   == Touch(s, CursorWord, M)
      up  == StoreAt(StoreAt(Touch(t, 1, M), 0, s.mem[1], M), 1, 0, M)
  IN  StoreAt(IF row > 1 THEN up ELSE t, CursorWord, 1, M)

Restartable ==
  {"mov", "store", "push", "pop", "xchg", "loadfar", "call", "ret", "group1", "ins", "teletype"}
PartlyDone ==
  {"adc", "rotate", "pushall", "popall", "callfar", "retfar", "int", "iret", "popmem",
   "retimm", "movs", "stos", "lods"}

Body(k, s, M) ==
  CASE k = "mov"      -> XMov(s, M)     [] k = "store"   -> XStore(s, M)
    [] k = "push"     -> XPush(s, M)    [] k = "pop"     -> XPop(s, M)
    [] k = "xchg"     -> XXchg(s, M)    [] k = "loadfar" -> XLoadFar(s, M)
    [] k = "call"     -> XCall(s, M)    [] k = "ret"     -> XRet(s, M)
    [] k = "group1"   -> XGroup1(s, M)  [] k = "ins"     -> XRepIns(s, M)
    [] k = "teletype" -> XTeletype(s, M)
    [] k = "adc"      -> XAdcToMem(s, M) [] k = "rotate" -> XRotate(s, M)
    [] k = "pushall"  -> XPushAll(s, M) [] k = "popall"  -> XPopAll(s, M)
    [] k = "callfar"  -> XCallFar(s, M) [] k = "retfar"  -> XRetFar(s, M)
    [] k = "int"      -> XInt(s, M)     [] k = "iret"    -> XIret(s, M)
    [] k = "popmem"   -> XPopMem(s, M)  [] k = "retimm"  -> XRetImm(s, M)
    [] k = "movs"     -> XRepMovs(s, M) [] k = "stos"    -> XRepStos(s, M)
    [] k = "lods"     -> XRepLods(s, M)

\* Prefixes, opcode, ModRM and operands are fetched first, RET imm16's last.
Execute(k, s, M) ==
  IF k = "retimm" THEN Touch(Body(k, s, M), CodeWord, M)
  ELSE LET t == Touch(s, CodeWord, M) IN IF Ok(t) THEN Body(k, t, M) ELSE t

----------------------------------------------------------------------------
\* One call of merced_ia32_step: it retires the instruction or leaves it to be
\* run again.
Ia32Attempt ==
  /\ Ok(xcore)
  /\ \E k \in IF op = "none" THEN Restartable \cup PartlyDone ELSE {op} :
       LET y == Execute(k, xcore, mapped)
       IN  /\ xcore' = y
           /\ op' = IF Ok(y) THEN "none" ELSE k
           /\ want' = IF op = "none" THEN Execute(k, xcore, Ia32Pages) ELSE want
  /\ UNCHANGED mapped

\* The native handler inserts the translation, perhaps in another's place.
Ia32Refill ==
  /\ ~Ok(xcore)
  /\ \E M \in SUBSET mapped : mapped' = M \cup {xcore.fault}
  /\ xcore' = [xcore EXCEPT !.fault = NoPage]
  /\ UNCHANGED <<op, want>>

Ia32Next == Ia32Attempt \/ Ia32Refill

Ia32Spec == Ia32Init /\ [][Ia32Next]_ia32Vars

----------------------------------------------------------------------------
RetiresRight(K) ==
  op' = "none" /\ xcore' # xcore /\ (op \in K \/ op = "none") /\ Ok(xcore) => xcore' = want'

\* However many of its accesses fault on the way, an instruction that keeps its
\* changes to the end leaves what it would have left without a fault: REP INS
\* loses no device word, a push moves the stack pointer once.
RestartsPrecisely == [][RetiresRight(Restartable)]_ia32Vars

\* The same of every instruction: IA-32 faults are precise.
FaultsArePrecise == [][RetiresRight(Restartable \cup PartlyDone)]_ia32Vars
=============================================================================
