------------------------------- MODULE SpyBus -------------------------------
(***************************************************************************)
(* cc, the debugger that works a real CADR over the serial adapter of its  *)
(* spy bus (cc.c): cc_send, reg_get, reg_set and the procedures made of    *)
(* them.  A procedure is a script of register writes, register reads and   *)
(* comparisons of what was read with what was wanted.                      *)
(*                                                                         *)
(* A 16-bit register value crosses the line in digits, one character each; *)
(* a character carries the digit's place (its high half) and its value, so *)
(* the adapter keeps the digits it has received until a command character  *)
(* tells it to write them to a register, or to send a register back.       *)
(* The adapter and the machine behind it are external: they are modelled   *)
(* from the way cc.c uses them.                                            *)
(*                                                                         *)
(* The line loses characters either way (cc_send even discards what is not *)
(* on the wire yet, with tcflush, and ignores a failing write), repeats    *)
(* characters of an answer, delivers an answer in two parts, and delivers  *)
(* it after reg_get has given up and asked again.                          *)
(***************************************************************************)
EXTENDS Integers, Sequences, SequencesExt

CONSTANTS
  Digits,        \* digits of a register, 4 in the code
  Parts,         \* registers that make up an instruction, 3 in the code
  MaxLoops,      \* empty reads before reg_get asks again, 5 in the code
  Instructions,  \* instructions handed to cc_execute
  Imem,          \* the word the machine fetches from its own memory
  Values,        \* values written to MD and to the scratch register
  MaxFaults      \* bound: times the line misbehaves

ASSUME SizeAssumption ==
  /\ Digits \in Nat \ {0} /\ Parts \in Nat \ {0}
  /\ MaxLoops \in Nat /\ MaxFaults \in Nat

Places == 1 .. Digits
Word == [Places -> 0 .. 15]
Zero == [d \in Places |-> 0]
Wide == [1 .. Parts -> Word]

ASSUME WordAssumption == Instructions \subseteq Wide /\ Values \subseteq Wide /\ Imem \in Wide

VARIABLES
  script,    \* what the running procedure still has to do
  got,       \* words it has read since it last compared
  call,      \* the procedure, what it was asked for
  verdict,   \* what a register test reported
  sent,      \* characters of the current message already sent
  buf,       \* reg_get's buffer
  loops,     \* reg_get's count of empty reads
  line,      \* characters on their way to cc
  nibs,      \* digits the adapter has received
  machine,   \* the CADR
  faults, seen   \* how often, and in which ways, the line misbehaved

host == <<script, got, call, verdict>>
io == <<sent, buf, loops>>
vars == <<host, io, line, nibs, machine, faults, seen>>

FaultKinds == {"lost", "clock", "repeated", "split", "late"}

TypeOK ==
  /\ got \in Seq(Word)
  /\ verdict \in {"none", "ok", "bad"}
  /\ sent \in 0 .. Digits + 1
  /\ buf \in Seq(Places \X (0 .. 15))
  /\ line \in Seq(Places \X (0 .. 15))
  /\ loops \in 0 .. MaxLoops
  /\ nibs \in Word
  /\ machine.clk \in 0 .. 15 /\ machine.scratch \in Word
  /\ {machine.diag, machine.ir, machine.md} \subseteq Wide
  /\ faults \in 0 .. MaxFaults
  /\ seen \subseteq FaultKinds

-----------------------------------------------------------------------------
\* The CADR.  Clock bits: 1 run, 2 step, 4 no-operation, 8 take the next
\* instruction from the diagnostic register.
Bit(n, b) == (n \div b) % 2 = 1

\* A step begins when the run or the step bit rises.
Clocked(m, n) ==
  LET rises == \E b \in {1, 2} : Bit(n, b) /\ ~Bit(m.clk, b)
      fetched == IF Bit(n, 8) THEN m.diag ELSE Imem
  IN  [m EXCEPT
         !.clk = n,
         !.ir = IF rises THEN fetched ELSE @,
         !.executed = IF rises /\ ~Bit(n, 4)
                      THEN Append(@, [ir |-> m.ir, md |-> m.md]) ELSE @]

WriteRegister(m, r, v) ==
  CASE r[1] = "ir" -> [m EXCEPT !.diag[r[2]] = v]
    [] r[1] = "md" -> [m EXCEPT !.md[r[2]] = v]
    [] r[1] = "scratch" -> [m EXCEPT !.scratch = v]
    [] r[1] = "clk" -> Clocked(m, v[Digits])

ReadRegister(m, r) ==
  CASE r[1] = "ir" -> m.ir[r[2]]
    [] r[1] = "md" -> m.md[r[2]]
    [] r[1] = "scratch" -> m.scratch

-----------------------------------------------------------------------------
(***************************************************************************)
(* Scripts.                                                                *)
(***************************************************************************)
CcSet(r, v) == [op |-> "set", reg |-> r, val |-> v]
CcGet(r) == [op |-> "get", reg |-> r]
\* The words read are printed, not compared.
Show == [op |-> "show"]
\* Compare; do the steps `again' and compare again when they differ.
Verify(want, again) == [op |-> "verify", want |-> want, again |-> again]
\* Compare; the test is over when they agree, and goes on when they differ.
Try(want) == [op |-> "try", want |-> want]
Fail == [op |-> "fail"]

WriteAll(name, v) == [p \in 1 .. Len(v) |-> CcSet(<<name, p>>, v[p])]
ReadAll(name, n) == [p \in 1 .. n |-> CcGet(<<name, p>>)]

Clk(n) == CcSet(<<"clk", 1>>, [Zero EXCEPT ![Digits] = n])
Pulse(n) == <<Clk(n), Clk(0)>>
DebugClock == Pulse(10)
\* Mutated form of NoopDebugClock.
NoopDebugClockWithoutNoop == Pulse(10)
NoopDebugClock == Pulse(14)
StepClock == Pulse(2)
NoopClock == Pulse(6)

WriteDiagIr(ir) == WriteAll("ir", ir) \o WriteAll("ir", ir)
ReadIr == ReadAll("ir", Parts)

\* cc_execute_r, cc_execute_w: the instruction is in IR for certain ...
LoadIr(ir) ==
  LET load == WriteDiagIr(ir) \o NoopDebugClock \o ReadIr
  IN  load \o <<Verify(ir, load)>>
\* ... before the machine is clocked without the no-operation bit.
ExecuteR(ir) == LoadIr(ir) \o DebugClock
ExecuteW(ir) == LoadIr(ir) \o StepClock \o NoopClock

\* Mutated form of WriteMd.
WriteMdRetriesReading(v) ==
  WriteAll("md", v) \o ReadAll("md", Parts) \o <<Verify(v, ReadAll("md", Parts))>>

WriteMd(v) ==
  LET load == WriteAll("md", v) \o ReadAll("md", Parts)
  IN  load \o <<Verify(v, load)>>

WriteAMem(ir, v) == WriteMd(v) \o ReadAll("md", Parts) \o <<Show>> \o ExecuteW(ir)

\* Mutated form of Attempts.
AttemptsOnce(write, read, want) == write \o read \o <<Try(want), Fail>>

\* _test_ir and _test_scratch: read again, then write again, then give up.
Attempts(write, read, want) ==
  write \o read \o <<Try(want)>> \o read \o <<Try(want)>> \o
  write \o read \o <<Try(want), Fail>>

TestIr(ir) == Attempts(WriteDiagIr(ir) \o NoopDebugClock, ReadIr, ir)
TestScratch(v) ==
  Attempts(<<CcGet(<<"scratch", 1>>), Show, CcSet(<<"scratch", 1>>, v)>>,
           <<CcGet(<<"scratch", 1>>)>>, <<v>>)

Script(c) ==
  CASE c.proc = "execute_r" -> ExecuteR(c.ir)
    [] c.proc = "write_a_mem" -> WriteAMem(c.ir, c.md)
    [] c.proc = "test_ir" -> TestIr(c.ir)
    [] c.proc = "test_scratch" -> TestScratch(c.md[1])

\* (cc_execute_w on its own is the last part of write_a_mem.)
Calls ==
  [proc : {"execute_r", "test_ir"}, ir : Instructions]
  \cup [proc : {"write_a_mem"}, ir : Instructions, md : Values]
  \cup [proc : {"test_scratch"}, md : Values]

-----------------------------------------------------------------------------
Init ==
  /\ script = <<>> /\ got = <<>>
  /\ call = [proc |-> "none"] /\ verdict = "none"
  /\ sent = 0 /\ buf = <<>> /\ loops = 0
  /\ line = <<>>
  /\ nibs = Zero
  /\ machine = [clk |-> 0, scratch |-> Zero, ir |-> Imem, executed |-> <<>>,
                diag |-> [p \in 1 .. Parts |-> Zero],
                md |-> [p \in 1 .. Parts |-> Zero]]
  /\ faults = 0 /\ seen = {}

Doing(op) == script # <<>> /\ Head(script).op = op

\* A command of main, or the next call of a procedure it is made of.
StartCall ==
  /\ script = <<>>
  /\ \E c \in Calls :
       /\ call' = c
       /\ script' = Script(c)
  /\ got' = <<>> /\ verdict' = "none"
  /\ machine' = [machine EXCEPT !.executed = <<>>]
  /\ UNCHANGED <<io, line, nibs, faults, seen>>

Fault(kinds) ==
  /\ faults < MaxFaults
  /\ faults' = faults + 1
  /\ seen' = seen \cup kinds

Fine == UNCHANGED <<faults, seen>>

\* What the adapter puts on the line for a read: one character may be lost or
\* repeated on the way.
Answer(r) ==
  LET v == ReadRegister(machine, r)
  IN  [d \in Places |-> <<d, v[d]>>]

Answers(r) ==
  \/ line' = line \o Answer(r) /\ Fine
  \/ \E d \in Places : line' = line \o RemoveAt(Answer(r), d) /\ Fault({"lost"})
  \/ \E d \in Places : /\ line' = line \o InsertAt(Answer(r), d, Answer(r)[d])
                       /\ Fault({"repeated"})

\* cc_send, one character: reg_set's digits and command.
SendSet ==
  /\ Doing("set")
  /\ LET s == Head(script)
         ends == sent = Digits
     IN  /\ \/ /\ Fine
               /\ nibs' = IF ends THEN nibs ELSE [nibs EXCEPT ![sent + 1] = s.val[sent + 1]]
               /\ machine' = IF ends THEN WriteRegister(machine, s.reg, nibs) ELSE machine
            \/ /\ Fault({"lost"} \cup (IF s.reg[1] = "clk" THEN {"clock"} ELSE {}))
               /\ UNCHANGED <<nibs, machine>>
         /\ sent' = IF ends THEN 0 ELSE sent + 1
         /\ script' = IF ends THEN Tail(script) ELSE script
  /\ UNCHANGED <<got, call, verdict, buf, loops, line>>

\* cc_send: reg_get's command.
SendGet ==
  /\ Doing("get")
  /\ sent = 0
  /\ sent' = 1
  /\ \/ Answers(Head(script).reg)
     \/ Fault({"lost"}) /\ UNCHANGED line
  /\ UNCHANGED <<host, buf, loops, nibs, machine>>

Awaiting == Doing("get") /\ sent = 1

\* reg_get's decoding: it looks at as many characters of the buffer as the
\* last read() returned, and a value with a digit missing is 0.
Decode(chars) ==
  LET found(d) == {i \in DOMAIN chars : chars[i][1] = d}
  IN  IF \A d \in Places : found(d) # {}
      THEN [d \in Places |-> chars[Max(found(d))][2]]
      ELSE Zero

\* read() returns what has arrived.  Only a total of exactly Digits characters
\* ends the loop.  (The buffer's limit of 64 is out of reach here.)
ReadChars(k) ==
  /\ Awaiting
  /\ LET total == buf \o SubSeq(line, 1, k)
         done == Len(total) = Digits
     IN  /\ buf' = IF done THEN <<>> ELSE total
         /\ got' = IF done THEN Append(got, Decode(SubSeq(total, 1, k))) ELSE got
         /\ script' = IF done THEN Tail(script) ELSE script
         /\ sent' = IF done THEN 0 ELSE 1
         /\ loops' = IF done THEN 0 ELSE loops
  /\ line' = SubSeq(line, k + 1, Len(line))
  /\ UNCHANGED <<call, verdict, nibs, machine>>

ReadAnswer ==
  \/ line # <<>> /\ ReadChars(Len(line)) /\ Fine
  \/ \E k \in 1 .. Len(line) - 1 : ReadChars(k) /\ Fault({"split"})

\* Mutated form of Again.
AgainKeepsBuffer == sent' = 0 /\ loops' = 0 /\ UNCHANGED buf

\* `goto again': the request is sent once more, with an empty buffer.
Again == sent' = 0 /\ loops' = 0 /\ buf' = <<>>

\* read() fails with EAGAIN: nothing has arrived, or nothing yet.
ReadNothing ==
  /\ Awaiting
  /\ IF loops < MaxLoops
     THEN loops' = loops + 1 /\ UNCHANGED <<sent, buf>>
     ELSE Again
  /\ \/ line = <<>> /\ Fine
     \/ line # <<>> /\ loops < MaxLoops /\ Fine
     \/ line # <<>> /\ loops = MaxLoops /\ Fault({"late"})
  /\ UNCHANGED <<host, line, nibs, machine>>

\* Comparing what was read.
Compare ==
  /\ \/ Doing("verify") /\ got = Head(script).want
        /\ script' = Tail(script) /\ UNCHANGED verdict
     \/ Doing("verify") /\ got # Head(script).want
        /\ script' = Head(script).again \o script /\ UNCHANGED verdict
     \/ Doing("try") /\ got = Head(script).want
        /\ script' = <<>> /\ verdict' = "ok"
     \/ Doing("try") /\ got # Head(script).want
        /\ script' = Tail(script) /\ UNCHANGED verdict
     \/ Doing("show") /\ script' = Tail(script) /\ UNCHANGED verdict
     \/ Doing("fail") /\ script' = <<>> /\ verdict' = "bad"
  /\ got' = <<>>
  /\ UNCHANGED <<call, io, line, nibs, machine, faults, seen>>

Proceed == SendSet \/ SendGet \/ ReadAnswer \/ ReadNothing \/ Compare

Next == StartCall \/ Proceed

Spec == Init /\ [][Next]_vars

\* cc goes on with the call; the line's misbehaviour is bounded, not fair.
FairSpec == Spec /\ WF_vars(Proceed)

-----------------------------------------------------------------------------
\* No character was repeated and no answer came after it was asked for again:
\* either leaves characters on the line that may pass for the next answer.
InStep == seen \cap {"repeated", "late"} = {}

(***************************************************************************)
(* reg_get returns what is in the register it asked for.  Characters lost  *)
(* either way make it ask again and cost nothing; an answer that comes in  *)
(* two parts counts as 0, which the callers cannot tell from a register    *)
(* that is 0.  (A character that is repeated, or an answer that is late,   *)
(* may become part of the answer to the next request.)                     *)
(***************************************************************************)
AnswersAreOwn ==
  [][Len(got') > Len(got) /\ InStep' =>
       LET v == got'[Len(got')]
       IN  \/ v = ReadRegister(machine, Head(script).reg)
           \/ v = Zero /\ "split" \in seen']_vars

(***************************************************************************)
(* An instruction handed to cc_execute is executed exactly once, nothing   *)
(* else is, and it finds in MD what cc_write_a_mem put there, whatever     *)
(* characters of the register writes and reads are lost.  Exceptions: a    *)
(* character of a clock write is lost, which is never read back; and a     *)
(* word of zeros is taken for verified when its answer came in parts.      *)
(***************************************************************************)
Agrees(is, want) ==
  \A p \in 1 .. Parts : is[p] = want[p] \/ (want[p] = Zero /\ "split" \in seen)

Executes == call.proc \in {"execute_r", "write_a_mem"}

ExecutedAsAsked ==
  Executes /\ InStep /\ "clock" \notin seen =>
    /\ Len(machine.executed) <= 1
    /\ script = <<>> => Len(machine.executed) = 1
    /\ \A i \in DOMAIN machine.executed :
         /\ Agrees(machine.executed[i].ir, call.ir)
         /\ call.proc = "write_a_mem" => Agrees(machine.executed[i].md, call.md)

(***************************************************************************)
(* The register tests tell a bad machine from a bad line: a single loss or *)
(* a single divided answer never makes them report BAD, and what they      *)
(* report ok is in the register.                                           *)
(***************************************************************************)
VerdictsSound ==
  /\ verdict = "bad" /\ InStep => faults >= 2
  /\ verdict = "ok" /\ InStep /\ call.proc = "test_ir" => Agrees(machine.ir, call.ir)
  /\ verdict = "ok" /\ InStep /\ call.proc = "test_scratch" =>
       machine.scratch = call.md[1] \/ (call.md[1] = Zero /\ "split" \in seen)

(***************************************************************************)
(* The endless retry loops of reg_get, cc_execute and cc_write_md come to  *)
(* an end when the line has stopped misbehaving: too many characters make  *)
(* reg_get ask again, which also rids the line of what was left on it.     *)
(***************************************************************************)
CallEnds == script # <<>> ~> script = <<>>
=============================================================================
