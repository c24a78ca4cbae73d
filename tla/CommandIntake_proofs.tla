------------------------- MODULE CommandIntake_proofs -------------------------
(***************************************************************************)
(* The intake of commands, for any owners, channels and traffic, any       *)
(* subscription limit and any number of redeliveries, republications,      *)
(* storage errors, lost acknowledgements and restarts.                     *)
(***************************************************************************)
EXTENDS CommandIntake, NumberSets, FiniteSetTheorems, TLAPS

(***************************************************************************)
(* The inductive invariant, of the commands C that Platform sends.         *)
(***************************************************************************)

\* Every command comes from Platform.
FromPlatform(C) ==
    unsent \subseteq C /\ stream \subseteq C /\ acked \subseteq C /\ cmd \in C \cup {None}

\* An inbox row stems from a command; there is one for a subject and key.
Stems(row, d) ==
    /\ row.id = d.id /\ row.subject = d.subject /\ row.key = Key(d)
    /\ row.state \in {"completed", "failed"}
    /\ row.state = "completed" => d.form = "valid"
InboxInv(C) ==
    /\ \A row \in inbox : \E d \in C : Stems(row, d)
    /\ \A p, q \in inbox : p.subject = q.subject /\ p.key = q.key => p = q

\* What an operation has heard is what its inbox row says.
Has(c, s) ==
    \E row \in inbox : row.subject = c.subject /\ row.key = Key(c) /\ row.state = s
Served(c) ==
    IF c.subject # "run" THEN {"succeeded"}
    ELSE IF c.trigger = "on_demand" THEN {"queued"} ELSE {}
HeardRight(c) ==
    IF c.form = "unreadable"
    THEN reports[c.op] \subseteq {"failed"} /\ (Decided(c) => reports[c.op] = {"failed"})
    ELSE /\ ~Decided(c) => reports[c.op] = {}
         /\ Has(c, "failed") => reports[c.op] = {"failed"}
         /\ Has(c, "completed") => reports[c.op] = Served(c)

\* A run stems from a command that was served, one of fan_out from an occurrence.
ServedRun(r) ==
    \E row \in inbox : /\ row.subject = "run" /\ row.key = <<"key", r.key>>
                       /\ row.state = "completed"
FannedOut(r, d) ==
    /\ d.subject = "occurrence" /\ d.form = "valid" /\ r.key = d.key /\ Decided(d)
    /\ r.window[1] \in Int /\ r.window[2] = d.due
    /\ d.previous <= r.window[1] /\ r.window[1] < d.due /\ d.due - r.window[1] <= Cap
RunsInv(C) ==
    /\ \A r \in runs : IF r.id \in Fanned THEN \E d \in C : FannedOut(r, d) ELSE ServedRun(r)
    /\ \A c \in C : c.subject = "run" /\ c.form = "valid" /\ Has(c, "completed") =>
                      \E r \in runs : r.id = c.run /\ r.key = c.key
    /\ \A q, r \in runs : q.id \in Fanned /\ r.id \in Fanned /\ q.owner = r.owner
                           /\ q.key = r.key => q = r

\* What is acknowledged, or about to be, is decided.
BusInv(C) ==
    \A c \in C : c \in acked \/ (c = cmd /\ busPc = "decided" /\ verdict = "ack") => Decided(c)

\* Finitely many active subscriptions, within the limit.
SubsInv == \A o \in Owner : IsFiniteSet(Enabled(o)) /\ Cardinality(Enabled(o)) <= Limit

Inv(C) == /\ TypeOK /\ FromPlatform(C) /\ InboxInv(C) /\ (\A c \in C : HeardRight(c))
          /\ RunsInv(C) /\ BusInv(C) /\ SubsInv

IInv == \E C \in Traffic : Inv(C)

-----------------------------------------------------------------------------
(***************************************************************************)
(* Commands and their inbox rows.                                          *)
(***************************************************************************)

LEMMA CommandFacts ==
    ASSUME NEW C \in Traffic, NEW c \in C
    PROVE  /\ c \in Command /\ c # None /\ c.op \in Operation /\ c.id \in {d.id : d \in Command}
           /\ c.subject \in Subject /\ c.form \in Form
<1>1. c \in Command
  BY DEF Command
<1> QED
  BY <1>1, PlatformAssumption, NoneAssumption DEF Operation

\* Commands with one inbox key are one request; commands of one operation have one
\* inbox key or none of them can be read.
LEMMA SameRequest ==
    ASSUME NEW C \in Traffic, NEW c \in C, NEW d \in C
    PROVE  /\ c.subject = d.subject /\ Key(c) = Key(d) =>
                 /\ c.op = d.op /\ c.form = d.form /\ c.key = d.key
                 /\ c.subject = "run" /\ c.form = "valid" => c.run = d.run /\ c.trigger = d.trigger
           /\ c.op = d.op => c.subject = d.subject /\ c.key = d.key /\ c.form = d.form
           /\ c.op = d.op /\ c.form # "unreadable" => Key(c) = Key(d)
<1>1. /\ c.id = d.id => c = d
      /\ (c.subject = d.subject /\ c.key = d.key) =>
             /\ c.op = d.op /\ c.form = d.form
             /\ c.subject = "run" /\ c.form = "valid" => c.run = d.run /\ c.trigger = d.trigger
      /\ c.op = d.op => c.subject = d.subject /\ c.key = d.key
  BY PlatformAssumption
<1>2. Key(c) = Key(d) => c = d \/ (c.key = d.key)
  BY <1>1 DEF Key
<1> QED
  BY <1>1, <1>2 DEF Key

\* on conflict do nothing: an envelope or key is in the inbox exactly if the request
\* is decided.
LEMMA KnownIsDecided ==
    ASSUME NEW C \in Traffic, InboxInv(C), NEW c \in C
    PROVE  Known(c) <=> Decided(c)
<1>1. \A d \in C : c.id = d.id => c = d
  BY PlatformAssumption
<1> QED
  BY <1>1 DEF Known, Decided, InboxInv, Stems

LEMMA DecidedHas ==
    ASSUME NEW C \in Traffic, InboxInv(C), NEW c \in C
    PROVE  /\ Decided(c) <=> Has(c, "completed") \/ Has(c, "failed")
           /\ ~(Has(c, "completed") /\ Has(c, "failed"))
           /\ Has(c, "completed") => c.form = "valid"
<1>1. /\ Decided(c) <=> Has(c, "completed") \/ Has(c, "failed")
      /\ ~(Has(c, "completed") /\ Has(c, "failed"))
  BY DEF Decided, Has, InboxInv, Stems
<1>2. ASSUME Has(c, "completed") PROVE c.form = "valid"
  BY <1>2, SameRequest DEF Has, InboxInv, Stems
<1> QED
  BY <1>1, <1>2

\* A decision adds the row of one request that had none.
LEMMA RecordInv ==
    ASSUME NEW C \in Traffic, InboxInv(C), NEW d \in C, ~Known(d),
           NEW s \in {"completed", "failed"}, s = "completed" => d.form = "valid", Record(d, s)
    PROVE  /\ InboxInv(C)'
           /\ \A c \in C : /\ Decided(c)' <=> Decided(c) \/ (c.subject = d.subject /\ Key(c) = Key(d))
                           /\ \A t \in {"completed", "failed"} :
                                Has(c, t)' <=> Has(c, t) \/ (c.subject = d.subject /\ Key(c) = Key(d) /\ t = s)
           /\ \A r : ServedRun(r) => ServedRun(r)'
           /\ ~Decided(d) /\ ~Has(d, "completed") /\ ~Has(d, "failed")
<1> DEFINE new == [id |-> d.id, subject |-> d.subject, key |-> Key(d), state |-> s]
<1>1. inbox' = inbox \cup {new}
  BY DEF Record
<1>2. new.id = d.id /\ new.subject = d.subject /\ new.key = Key(d) /\ new.state = s
  OBVIOUS
<1>3. Stems(new, d)
  BY <1>2 DEF Stems
<1> HIDE DEF new
<1>4. InboxInv(C)'
  <2>1. \A row \in inbox' : \E e \in C : Stems(row, e)
    BY <1>1, <1>3 DEF InboxInv
  <2>2. \A p, q \in inbox' : p.subject = q.subject /\ p.key = q.key => p = q
    BY <1>1, <1>2 DEF InboxInv, Known
  <2> QED
    BY <2>1, <2>2 DEF InboxInv, Stems, Key
<1>5. ASSUME NEW c \in C
      PROVE  /\ Decided(c)' <=> Decided(c) \/ (c.subject = d.subject /\ Key(c) = Key(d))
             /\ \A t \in {"completed", "failed"} :
                  Has(c, t)' <=> Has(c, t) \/ (c.subject = d.subject /\ Key(c) = Key(d) /\ t = s)
  BY <1>1, <1>2 DEF Decided, Has, Key
<1>6. \A r : ServedRun(r) => ServedRun(r)'
  BY <1>1 DEF ServedRun
<1>7. ~Decided(d) /\ ~Has(d, "completed") /\ ~Has(d, "failed")
  BY DEF Known, Decided, Has
<1> QED
  BY <1>4, <1>5, <1>6, <1>7

\* A decision tells the operation what it decided, and no other operation.
LEMMA HeardInv ==
    ASSUME NEW C \in Traffic, InboxInv(C), \A c \in C : HeardRight(c), NEW d \in C, ~Known(d),
           NEW s \in {"completed", "failed"}, s = "completed" => d.form = "valid", Record(d, s),
           \A op \in Operation : reports'[op] =
              IF op = d.op THEN reports[op] \cup (IF s = "failed" THEN {"failed"} ELSE Served(d))
                           ELSE reports[op]
    PROVE  \A c \in C : HeardRight(c)'
<1> SUFFICES ASSUME NEW c \in C PROVE HeardRight(c)'
  OBVIOUS
<1> DEFINE Same == c.subject = d.subject /\ Key(c) = Key(d)
<1>1. /\ Decided(c)' <=> Decided(c) \/ Same
      /\ Has(c, "completed")' <=> Has(c, "completed") \/ (Same /\ s = "completed")
      /\ Has(c, "failed")' <=> Has(c, "failed") \/ (Same /\ s = "failed")
      /\ ~Decided(d) /\ ~Has(d, "completed") /\ ~Has(d, "failed")
  BY RecordInv
<1>2. c.op \in Operation /\ d.op \in Operation
  BY CommandFacts
<1>3. Same => c.op = d.op /\ c.form = d.form
  BY SameRequest
<1>4. CASE c.op # d.op
  <2>1. reports'[c.op] = reports[c.op] /\ ~Same
    BY <1>2, <1>3, <1>4
  <2> QED
    BY <1>1, <2>1 DEF HeardRight, Served
<1>5. CASE c.op = d.op /\ c.form = "unreadable"
  <2>1. d.form = "unreadable" /\ s = "failed"
    BY <1>5, SameRequest
  <2>2. reports'[c.op] = reports[c.op] \cup {"failed"}
    BY <1>2, <1>5, <2>1
  <2> QED
    BY <1>5, <2>2 DEF HeardRight
<1>6. CASE c.op = d.op /\ c.form # "unreadable"
  <2>1. Same
    BY <1>6, SameRequest
  <2>2. ~Decided(c) /\ ~Has(c, "completed") /\ ~Has(c, "failed")
    BY <1>1, <2>1 DEF Decided, Has
  <2>3. reports[c.op] = {}
    BY <1>6, <2>2 DEF HeardRight
  <2>4. s = "completed" => Served(d) = Served(c)
    BY <1>3, <2>1, SameRequest DEF Served
  <2>5. reports'[c.op] = IF s = "failed" THEN {"failed"} ELSE Served(c)
    BY <1>2, <1>6, <2>3, <2>4
  <2> QED
    BY <1>1, <1>6, <2>1, <2>2, <2>5 DEF HeardRight, Served
<1> QED
  BY <1>4, <1>5, <1>6

\* Steps that decide nothing.
LEMMA DatabaseKept ==
    ASSUME NEW C \in Traffic, UNCHANGED database
    PROVE  /\ InboxInv(C) => InboxInv(C)' 
           /\ \A c \in C : (HeardRight(c) => HeardRight(c)') /\ (Decided(c)' <=> Decided(c))
           /\ RunsInv(C) => RunsInv(C)'
           /\ SubsInv => SubsInv'
<1> USE DEF database
<1>1. InboxInv(C) => InboxInv(C)'
  BY DEF InboxInv, Stems, Key
<1>2. ASSUME NEW c \in C
      PROVE  (Decided(c)' <=> Decided(c)) /\ \A t : Has(c, t)' <=> Has(c, t)
  BY DEF Decided, Has, Key
<1>3. ASSUME NEW c \in C, HeardRight(c) PROVE HeardRight(c)'
  BY <1>2, <1>3 DEF HeardRight, Served
<1>4. ASSUME RunsInv(C) PROVE RunsInv(C)'
  <2>1. \A r : (ServedRun(r)' <=> ServedRun(r)) /\ \A d \in C : FannedOut(r, d)' <=> FannedOut(r, d)
    BY <1>2 DEF ServedRun, FannedOut
  <2> QED
    BY <1>2, <1>4, <2>1 DEF RunsInv
<1>5. SubsInv => SubsInv'
  BY DEF SubsInv, Enabled
<1> QED
  BY <1>1, <1>2, <1>3, <1>4, <1>5

-----------------------------------------------------------------------------
(***************************************************************************)
(* The bus task, the executor and time.                                    *)
(***************************************************************************)

\* TypeOK, component by component.
SubsOK == subs \in [Owner -> [Channel -> Row \cup {None}]]
RunsOK == \A r \in runs : r.owner \in Owner /\ r.trigger \in {"on_demand", "scheduled"}
InboxOK == \A row \in inbox : row.state \in {"completed", "failed"} /\ row.subject \in Subject
BusOK ==
    /\ busPc \in {"idle", "handle", "reject", "decided"}
    /\ cmd \in stream \cup {None} /\ (busPc = "idle" <=> cmd = None)
    /\ verdict \in {"none", "ack", "nak", "term"}
ExecutorOK == exRun \in runs \cup {None} /\ walked \subseteq Channel

LEMMA TypeParts ==
    ASSUME NEW C \in Traffic, FromPlatform(C)
    PROVE  TypeOK <=> /\ SubsOK /\ RunsOK /\ InboxOK /\ reports \in [Operation -> SUBSET Status]
                      /\ BusOK /\ ExecutorOK /\ now \in 0 .. MaxTime /\ faults \in 0 .. MaxFaults
<1>1. unsent \subseteq Command /\ stream \subseteq Command /\ acked \subseteq Command
  BY CommandFacts DEF FromPlatform
<1> QED
  BY <1>1 DEF TypeOK, SubsOK, RunsOK, InboxOK, BusOK, ExecutorOK

LEMMA InboxType == ASSUME NEW C \in Traffic, InboxInv(C) PROVE InboxOK
BY CommandFacts DEF InboxInv, InboxOK, Stems

\* Every decision is about the command the bus task holds, and gives a verdict on it.
LEMMA HandleFacts ==
    ASSUME Handle
    PROVE  /\ busPc \in {"handle", "reject"} /\ busPc' \in {"reject", "decided"}
           /\ busPc' = "reject" => UNCHANGED <<verdict, database>>
           /\ busPc' = "decided" => verdict' \in {"ack", "nak", "term"}
           /\ UNCHANGED <<unsent, cmd, stream, acked, executor, now, faults>>
BY DEF Handle, Terminate, Replay, RefuseInvalid, Reject, SetSubscription, RefuseLimit, AcceptRun,
   RefuseRun, RunIdentityTaken, AcceptOccurrence, Decide, Refuse, Fresh

LEMMA BusStep ==
    ASSUME NEW C \in Traffic, TypeOK, FromPlatform(C), [Next]_vars
    PROVE  BusOK' /\ FromPlatform(C)'
<1> USE DEF BusOK, FromPlatform
<1>0. BusOK /\ None \notin C
  BY TypeParts, CommandFacts
<1>1. ASSUME NEW c \in unsent, Send(c) PROVE BusOK' /\ FromPlatform(C)'
  BY <1>0, <1>1 DEF Send
<1>2. ASSUME NEW c \in stream, Deliver(c) PROVE BusOK' /\ FromPlatform(C)'
  BY <1>0, <1>2 DEF Deliver
<1>3. CASE Handle
  BY <1>0, <1>3, HandleFacts
<1>4. CASE Finish
  BY <1>0, <1>4 DEF Finish, BusIdle
<1>5. CASE Nak \/ Interrupt
  BY <1>0, <1>5 DEF Nak, Interrupt, BusIdle
<1>6. CASE UNCHANGED bus
  BY <1>0, <1>6 DEF bus
<1> QED
  BY <1>1, <1>2, <1>3, <1>4, <1>5, <1>6 DEF Next, Bus, Executor, Tick, SubscribedChannels, SelectSources, vars

LEMMA ClockStep ==
    ASSUME TypeOK, [Next]_vars
    PROVE  now' \in 0 .. MaxTime /\ faults' \in 0 .. MaxFaults
<1> USE IntakeBounds
<1>0. now \in 0 .. MaxTime /\ faults \in 0 .. MaxFaults
  BY DEF TypeOK
<1>1. CASE Tick
  BY <1>0, <1>1 DEF Tick
<1>2. CASE Interrupt
  BY <1>0, <1>2 DEF Interrupt
<1>3. CASE UNCHANGED <<now, faults>>
  BY <1>0, <1>3
<1> QED
  BY <1>1, <1>2, <1>3, HandleFacts DEF Next, Bus, Executor, Send, Deliver, Finish, Nak,
     SubscribedChannels, SelectSources, vars

LEMMA RunsGrow == ASSUME [Next]_vars PROVE runs \subseteq runs'
<1>1. CASE Handle
  BY <1>1 DEF Handle, Terminate, Replay, RefuseInvalid, Reject, SetSubscription, RefuseLimit, AcceptRun,
     RefuseRun, RunIdentityTaken, AcceptOccurrence, database
<1> QED
  BY <1>1 DEF Next, Bus, Executor, Tick, Send, Deliver, Finish, Nak, Interrupt,
     SubscribedChannels, SelectSources, vars, database

LEMMA ExecutorStep == ASSUME TypeOK, [Next]_vars PROVE ExecutorOK'
<1>0. ExecutorOK /\ runs \subseteq runs'
  BY RunsGrow DEF TypeOK, ExecutorOK
<1>1. ASSUME NEW r \in runs, SubscribedChannels(r) PROVE ExecutorOK'
  BY <1>0, <1>1 DEF SubscribedChannels, ExecutorOK, Enabled
<1>2. CASE SelectSources
  BY <1>2 DEF SelectSources, ExecutorOK
<1>3. CASE UNCHANGED executor
  BY <1>0, <1>3 DEF executor, ExecutorOK
<1> QED
  BY <1>1, <1>2, <1>3, HandleFacts DEF Next, Bus, Executor, Tick, Send, Deliver, Finish, Nak, Interrupt, vars

\* What is decided stays so; a verdict of "ack" is given on a decided command.
LEMMA BusInvStep ==
    ASSUME NEW C \in Traffic, TypeOK, FromPlatform(C), InboxInv(C), BusInv(C), [Next]_vars,
           \A c \in C : Decided(c) => Decided(c)',
           Handle /\ verdict' = "ack" /\ busPc' = "decided" => \A c \in C : c = cmd => Decided(c)'
    PROVE  BusInv(C)'
<1> USE DEF BusInv
<1>1. CASE Handle
  BY <1>1, HandleFacts
<1>2. CASE Finish
  BY <1>2 DEF Finish, BusIdle
<1>3. CASE UNCHANGED acked /\ (UNCHANGED <<cmd, busPc, verdict>> \/ busPc' # "decided")
  BY <1>3
<1> QED
  BY <1>1, <1>2, <1>3 DEF Next, Bus, Executor, Tick, Send, Deliver, Nak, Interrupt, BusIdle,
     SubscribedChannels, SelectSources, vars, bus

-----------------------------------------------------------------------------
(***************************************************************************)
(* The decisions.                                                          *)
(***************************************************************************)

LEMMA QuietStep ==
    ASSUME NEW C \in Traffic, Inv(C), [Next]_vars, UNCHANGED database,
           Handle /\ verdict' = "ack" /\ busPc' = "decided" => Known(cmd)
    PROVE  Inv(C)'
<1>1. BusOK' /\ FromPlatform(C)' /\ ExecutorOK' /\ now' \in 0 .. MaxTime /\ faults' \in 0 .. MaxFaults
  BY BusStep, ExecutorStep, ClockStep DEF Inv
<1>2. InboxInv(C)' /\ (\A c \in C : HeardRight(c)') /\ RunsInv(C)' /\ SubsInv'
  BY DatabaseKept DEF Inv
<1>3. BusInv(C)'
  <2>1. \A c \in C : Decided(c) => Decided(c)'
    BY DatabaseKept DEF Inv
  <2>2. \A c \in C : Known(c) => Decided(c)
    BY KnownIsDecided DEF Inv
  <2> QED
    BY <2>1, <2>2, BusInvStep DEF Inv
<1>4. TypeOK'
  <2>1. SubsOK' /\ RunsOK' /\ InboxOK' /\ reports' \in [Operation -> SUBSET Status]
    BY DEF Inv, TypeOK, database, SubsOK, RunsOK, InboxOK
  <2>2. unsent' \subseteq Command /\ stream' \subseteq Command /\ acked' \subseteq Command
    BY <1>1, CommandFacts DEF FromPlatform
  <2> QED
    BY <1>1, <2>1, <2>2 DEF TypeOK, SubsOK, RunsOK, InboxOK, BusOK, ExecutorOK
<1> QED
  BY <1>1, <1>2, <1>3, <1>4 DEF Inv

\* What the four recorded decisions have in common.
LEMMA DecisionStep ==
    ASSUME NEW C \in Traffic, Inv(C), [Next]_vars, Handle, cmd \in C, ~Known(cmd),
           NEW s \in {"completed", "failed"}, s = "completed" => cmd.form = "valid", Record(cmd, s),
           reports' \in [Operation -> SUBSET Status],
           \A op \in Operation : reports'[op] =
              IF op = cmd.op THEN reports[op] \cup (IF s = "failed" THEN {"failed"} ELSE Served(cmd))
                             ELSE reports[op],
           SubsOK', SubsInv', RunsOK', RunsInv(C)'
    PROVE  Inv(C)'
<1>1. BusOK' /\ FromPlatform(C)' /\ ExecutorOK' /\ now' \in 0 .. MaxTime /\ faults' \in 0 .. MaxFaults
  BY BusStep, ExecutorStep, ClockStep DEF Inv
<1>2. InboxInv(C)' /\ \A c \in C : HeardRight(c)'
  BY RecordInv, HeardInv DEF Inv
<1>3. BusInv(C)'
  <2>1. \A c \in C : (Decided(c) => Decided(c)') /\ (c = cmd => Decided(c)')
    BY RecordInv DEF Inv
  <2> QED
    BY <2>1, BusInvStep DEF Inv
<1>4. InboxOK'
  BY <1>2, CommandFacts DEF InboxInv, InboxOK, Stems
<1>5. TypeOK'
  <2>1. unsent' \subseteq Command /\ stream' \subseteq Command /\ acked' \subseteq Command
    BY <1>1, CommandFacts DEF FromPlatform
  <2> QED
    BY <1>1, <1>4, <2>1 DEF TypeOK, SubsOK, RunsOK, InboxOK, BusOK, ExecutorOK
<1> QED
  BY <1>1, <1>2, <1>3, <1>5 DEF Inv

\* A decision that starts no run.
LEMMA RunsKept ==
    ASSUME NEW C \in Traffic, Inv(C), NEW d \in C, ~Known(d),
           NEW s \in {"completed", "failed"}, s = "completed" => d.form = "valid", Record(d, s),
           s = "failed" \/ d.subject # "run", UNCHANGED runs
    PROVE  RunsInv(C)'
<1>1. \A c \in C : /\ Decided(c) => Decided(c)'
                   /\ c.subject = "run" /\ Has(c, "completed")' => Has(c, "completed")
  BY RecordInv DEF Inv
<1>2. \A r : /\ ServedRun(r) => ServedRun(r)'
            /\ \A c \in C : FannedOut(r, c) => FannedOut(r, c)'
  BY <1>1, RecordInv DEF Inv, FannedOut
<1> QED
  BY <1>1, <1>2 DEF RunsInv, Inv

LEMMA ReportStep ==
    ASSUME TypeOK, NEW op \in Operation, NEW status \in Status, Report(op, status)
    PROVE  /\ reports' \in [Operation -> SUBSET Status]
           /\ \A o \in Operation : reports'[o] = IF o = op THEN reports[o] \cup {status} ELSE reports[o]
BY DEF TypeOK, Report

LEMMA HeldCommand ==
    ASSUME NEW C \in Traffic, Inv(C), busPc # "idle"
    PROVE  cmd \in C /\ cmd \in Command /\ cmd.op \in Operation
BY CommandFacts DEF Inv, TypeOK, FromPlatform

LEMMA RejectInv == ASSUME NEW C \in Traffic, Inv(C), Reject PROVE Inv(C)'
<1>1. /\ busPc = "reject" /\ ~Known(cmd) /\ Record(cmd, "failed") /\ Report(cmd.op, "failed")
      /\ UNCHANGED <<subs, runs>> /\ Handle /\ [Next]_vars
  BY DEF Reject, Handle, Next, Bus
<1>2. cmd \in C /\ cmd.op \in Operation
  BY <1>1, HeldCommand
<1>3. RunsInv(C)'
  BY <1>1, <1>2, RunsKept
<1>4. SubsOK' /\ SubsInv' /\ RunsOK'
  BY <1>1 DEF Inv, TypeOK, SubsOK, SubsInv, RunsOK, Enabled
<1>5. /\ reports' \in [Operation -> SUBSET Status]
      /\ \A o \in Operation : reports'[o] = IF o = cmd.op THEN reports[o] \cup {"failed"} ELSE reports[o]
  BY <1>1, <1>2, ReportStep DEF Inv, Status
<1> QED
  BY <1>1, <1>2, <1>3, <1>4, <1>5, DecisionStep

\* set_subscription stays within the limit.
LEMMA SetInv == ASSUME NEW C \in Traffic, Inv(C), SetSubscription PROVE Inv(C)'
<1> DEFINE o == cmd.owner
           ch == cmd.channel
           new == [since |-> IF subs[o][ch] = None THEN now ELSE subs[o][ch].since, enabled |-> cmd.on]
<1>1. /\ busPc = "handle" /\ cmd.subject = "subscription" /\ cmd.form = "valid" /\ ~Known(cmd)
      /\ ~LimitReached(o, ch, cmd.on) /\ subs' = [subs EXCEPT ![o][ch] = new]
      /\ Record(cmd, "completed") /\ Report(cmd.op, "succeeded")
      /\ UNCHANGED runs /\ Handle /\ [Next]_vars
  BY DEF SetSubscription, Fresh, Handle, Next, Bus
<1>2. cmd \in C /\ cmd \in Command /\ cmd.op \in Operation
  BY <1>1, HeldCommand
<1>3. o \in Owner /\ ch \in Channel /\ cmd.on \in BOOLEAN
  BY <1>1, <1>2, CommandAssumption
<1>4. new \in Row /\ new # None
  <2>1. subs[o][ch] \in Row \cup {None} /\ now \in 0 .. MaxTime
    BY <1>3 DEF Inv, TypeOK
  <2>2. (IF subs[o][ch] = None THEN now ELSE subs[o][ch].since) \in 0 .. MaxTime
    BY <2>1 DEF Row
  <2>3. new \in Row
    BY <1>3, <2>2 DEF Row
  <2> QED
    BY <2>3, NoneAssumption
<1>5. new.enabled = cmd.on
  OBVIOUS
<1> HIDE DEF o, ch, new
<1>6. SubsOK' /\ RunsOK'
  BY <1>1, <1>3, <1>4 DEF Inv, TypeOK, SubsOK, RunsOK
<1>7. SubsInv'
  <2> SUFFICES ASSUME NEW p \in Owner
               PROVE  IsFiniteSet(Enabled(p)') /\ Cardinality(Enabled(p)') <= Limit
    BY DEF SubsInv
  <2>0. IsFiniteSet(Enabled(p)) /\ Cardinality(Enabled(p)) <= Limit /\ Cardinality(Enabled(p)) \in Nat
        /\ Limit \in Nat
    BY FS_CardinalityType, IntakeBounds DEF Inv, SubsInv
  <2>1. CASE p # o
    BY <1>1, <1>3, <2>0, <2>1 DEF Enabled, Inv, TypeOK
  <2>2. CASE p = o
    <3>1. \A x \in Channel : subs'[p][x] = IF x = ch THEN new ELSE subs[p][x]
      BY <1>1, <1>3, <2>2 DEF Inv, TypeOK
    <3>2. Enabled(p)' = IF cmd.on THEN Enabled(p) \cup {ch} ELSE Enabled(p) \ {ch}
      BY <1>3, <1>4, <1>5, <3>1 DEF Enabled
    <3>3. CASE ~cmd.on
      <4>1. Enabled(p)' = Enabled(p) \ {ch}
        BY <3>2, <3>3
      <4>2. /\ IsFiniteSet(Enabled(p) \ {ch})
            /\ Cardinality(Enabled(p) \ {ch}) =
                 IF ch \in Enabled(p) THEN Cardinality(Enabled(p)) - 1 ELSE Cardinality(Enabled(p))
        BY <2>0, FS_RemoveElement
      <4> QED
        BY <2>0, <4>1, <4>2
    <3>4. CASE cmd.on
      <4>1. Enabled(p)' = Enabled(p) \cup {ch}
        BY <3>2, <3>4
      <4>2. ch \in Enabled(p) \/ Cardinality(Enabled(p)) < Limit
        BY <1>1, <2>0, <2>2, <3>4 DEF LimitReached
      <4>3. /\ IsFiniteSet(Enabled(p) \cup {ch})
            /\ Cardinality(Enabled(p) \cup {ch}) =
                 IF ch \in Enabled(p) THEN Cardinality(Enabled(p)) ELSE Cardinality(Enabled(p)) + 1
        BY <2>0, FS_AddElement
      <4> QED
        BY <2>0, <4>1, <4>2, <4>3
    <3> QED
      BY <3>3, <3>4
  <2> QED
    BY <2>1, <2>2
<1>8. RunsInv(C)'
  BY <1>1, <1>2, RunsKept
<1>9. /\ reports' \in [Operation -> SUBSET Status] /\ Served(cmd) = {"succeeded"}
      /\ \A x \in Operation : reports'[x] = IF x = cmd.op THEN reports[x] \cup {"succeeded"} ELSE reports[x]
  BY <1>1, <1>2, ReportStep DEF Inv, Status, Served
<1> QED
  BY <1>1, <1>2, <1>6, <1>7, <1>8, <1>9, DecisionStep

LEMMA AcceptRunInv == ASSUME NEW C \in Traffic, Inv(C), AcceptRun PROVE Inv(C)'
<1>1. busPc = "handle" /\ Handle /\ [Next]_vars
  BY DEF AcceptRun, Fresh, Handle, Next, Bus
<1>2. PICK d \in C : d = cmd
  BY <1>1, HeldCommand
<1> DEFINE new == [id |-> d.run, owner |-> d.owner, key |-> d.key,
                   trigger |-> d.trigger, window |-> d.window]
<1>3. /\ d.subject = "run" /\ d.form = "valid" /\ ~Known(d)
      /\ runs' = runs \cup {new} /\ Record(d, "completed") /\ UNCHANGED subs
      /\ d.trigger = "on_demand" => Report(d.op, "queued")
      /\ d.trigger # "on_demand" => UNCHANGED reports
  BY <1>2 DEF AcceptRun, Fresh
<1>4. /\ d.owner \in Owner /\ d.trigger \in {"on_demand", "scheduled"} /\ d.run \notin Fanned
      /\ d.op \in Operation
  BY <1>3, CommandFacts, CommandAssumption
<1>5. new.id = d.run /\ new.owner = d.owner /\ new.key = d.key /\ new.trigger = d.trigger
  OBVIOUS
<1> HIDE DEF new
<1>6. SubsOK' /\ SubsInv' /\ RunsOK'
  BY <1>3, <1>4, <1>5 DEF Inv, TypeOK, SubsOK, SubsInv, RunsOK, Enabled
<1>7. RunsInv(C)'
  <2>1. /\ InboxInv(C)' /\ \A r : ServedRun(r) => ServedRun(r)'
        /\ \A c \in C : Decided(c) => Decided(c)'
    BY <1>3, RecordInv DEF Inv
  <2>2. \A c \in C : Has(c, "completed")' =>
                      Has(c, "completed") \/ (c.subject = d.subject /\ Key(c) = Key(d))
    BY <1>3, RecordInv DEF Inv
  <2>3. \A r : \A c \in C : FannedOut(r, c) => FannedOut(r, c)'
    BY <2>1 DEF FannedOut
  <2>4. ServedRun(new)'
    <3> DEFINE row == [id |-> d.id, subject |-> d.subject, key |-> Key(d), state |-> "completed"]
    <3>1. row \in inbox' /\ row.subject = "run" /\ row.key = Key(d) /\ row.state = "completed"
      BY <1>3 DEF Record
    <3>2. Key(d) = <<"key", new.key>> /\ new' = new
      BY <1>3, <1>5 DEF Key, new
    <3> HIDE DEF row
    <3> QED
      BY <3>1, <3>2 DEF ServedRun
  <2>5. \A r \in runs' : IF r.id \in Fanned THEN \E e \in C : FannedOut(r, e)' ELSE ServedRun(r)'
    <3> SUFFICES ASSUME NEW r \in runs'
                 PROVE  IF r.id \in Fanned THEN \E e \in C : FannedOut(r, e)' ELSE ServedRun(r)'
      OBVIOUS
    <3>1. CASE r \in runs
      BY <3>1, <2>1, <2>3 DEF Inv, RunsInv
    <3>2. CASE r = new
      BY <1>4, <1>5, <2>4, <3>2 DEF ServedRun
    <3> QED
      BY <1>3, <3>1, <3>2
  <2>6. \A c \in C : c.subject = "run" /\ c.form = "valid" /\ Has(c, "completed")' =>
                      \E r \in runs' : r.id = c.run /\ r.key = c.key
    <3> SUFFICES ASSUME NEW c \in C, c.subject = "run", c.form = "valid", Has(c, "completed")'
                 PROVE  \E r \in runs' : r.id = c.run /\ r.key = c.key
      OBVIOUS
    <3>1. CASE Has(c, "completed")
      BY <1>3, <3>1 DEF Inv, RunsInv
    <3>2. CASE c.subject = d.subject /\ Key(c) = Key(d)
      BY <1>3, <1>5, <3>2, SameRequest
    <3> QED
      BY <2>2, <3>1, <3>2
  <2>7. \A q, r \in runs' : q.id \in Fanned /\ r.id \in Fanned /\ q.owner = r.owner
                              /\ q.key = r.key => q = r
    BY <1>3, <1>4, <1>5 DEF Inv, RunsInv
  <2> QED
    BY <2>5, <2>6, <2>7 DEF RunsInv
<1>8. /\ reports' \in [Operation -> SUBSET Status]
      /\ \A x \in Operation : reports'[x] = IF x = d.op THEN reports[x] \cup Served(d) ELSE reports[x]
  <2>1. CASE d.trigger = "on_demand"
    BY <1>3, <1>4, <2>1, ReportStep DEF Inv, Status, Served
  <2>2. CASE d.trigger # "on_demand"
    BY <1>3, <2>2 DEF Inv, TypeOK, Served
  <2> QED
    BY <2>1, <2>2
<1> QED
  BY <1>1, <1>2, <1>3, <1>6, <1>7, <1>8, DecisionStep

\* normalized_window: after the activation and the previous point, before the due one,
\* and no longer than the cap.
LEMMA WindowStartBounds ==
    ASSUME NEW a \in Int, NEW c, c.previous \in Int, c.due \in Int, a < c.due, c.previous < c.due
    PROVE  LET w == WindowStart(a, c)
           IN  w \in Int /\ c.previous <= w /\ w < c.due /\ c.due - w <= Cap
<1> DEFINE late == Max({c.previous, c.due - Cap})
<1>1. late = IF c.previous >= c.due - Cap THEN c.previous ELSE c.due - Cap
  BY IntakeBounds, MaxOfTwo
<1>2. late \in Int /\ late >= c.previous /\ late >= c.due - Cap /\ late < c.due
  BY <1>1, IntakeBounds
<1> HIDE DEF late
<1>3. WindowStart(a, c) = IF a >= late THEN a ELSE late
  BY <1>2, MaxOfTwo DEF WindowStart, late
<1> QED
  BY <1>2, <1>3, IntakeBounds

LEMMA ScheduledRunFacts ==
    ASSUME TypeOK, NEW C \in Traffic, NEW c \in C, c.subject = "occurrence", c.form = "valid",
           NEW o \in Owner, Active(o, c) # {}
    PROVE  LET r == ScheduledRun(o, c)
           IN  /\ r.id = <<o, c.id>> /\ r.owner = o /\ r.key = c.key /\ r.trigger = "scheduled"
               /\ r.window[1] \in Int /\ r.window[2] = c.due
               /\ c.previous <= r.window[1] /\ r.window[1] < c.due /\ c.due - r.window[1] <= Cap
<1> DEFINE S == {subs[o][ch].since : ch \in Active(o, c)}
<1>1. c.previous \in Int /\ c.due \in Int /\ c.previous < c.due
  BY CommandFacts, CommandAssumption, PlatformAssumption
<1>2. \A ch \in Active(o, c) : subs[o][ch].since \in 0 .. MaxTime /\ subs[o][ch].since < c.due
  BY DEF TypeOK, Active, Enabled, Row
<1>3. S \in SUBSET Nat /\ S # {} /\ \A x \in S : x < c.due
  BY <1>2, IntakeBounds
<1>4. Min(S) \in S
  <2> HIDE DEF S
  <2> QED
    BY <1>3, MinOfNaturals
<1>5. Min(S) \in Int /\ Min(S) < c.due
  BY <1>3, <1>4
<1> DEFINE w == WindowStart(Min(S), c)
<1>6. w \in Int /\ c.previous <= w /\ w < c.due /\ c.due - w <= Cap
  BY <1>1, <1>5, WindowStartBounds
<1>7. ScheduledRun(o, c) = [id |-> <<o, c.id>>, owner |-> o, key |-> c.key, trigger |-> "scheduled",
                            window |-> <<w, c.due>>]
  BY DEF ScheduledRun
<1> HIDE DEF w
<1> QED
  BY <1>6, <1>7

\* accept_occurrence: the key of an occurrence that is not in the inbox has no run yet.
LEMMA AcceptOccurrenceInv == ASSUME NEW C \in Traffic, Inv(C), AcceptOccurrence PROVE Inv(C)'
<1>1. busPc = "handle" /\ Handle /\ [Next]_vars
  BY DEF AcceptOccurrence, Fresh, Handle, Next, Bus
<1>2. PICK d \in C : d = cmd
  BY <1>1, HeldCommand
<1> DEFINE created == {ScheduledRun(o, d) : o \in {p \in Owner : Active(p, d) # {}}}
<1>3. /\ d.subject = "occurrence" /\ d.form = "valid" /\ ~Known(d)
      /\ runs \subseteq runs' /\ runs' \subseteq runs \cup created
      /\ Record(d, "completed") /\ UNCHANGED subs /\ Report(d.op, "succeeded")
  BY <1>2 DEF AcceptOccurrence, Fresh
<1>4. d.op \in Operation /\ d.id \in {c.id : c \in Command}
  BY CommandFacts
<1>5. ASSUME NEW r \in created
      PROVE  \E o \in Owner :
               /\ r = ScheduledRun(o, d)
               /\ r.id = <<o, d.id>> /\ r.owner = o /\ r.key = d.key /\ r.trigger = "scheduled"
               /\ r.window[1] \in Int /\ r.window[2] = d.due
               /\ d.previous <= r.window[1] /\ r.window[1] < d.due /\ d.due - r.window[1] <= Cap
  <2>1. PICK o \in Owner : Active(o, d) # {} /\ r = ScheduledRun(o, d)
    OBVIOUS
  <2> QED
    BY <1>3, <2>1, ScheduledRunFacts DEF Inv
<1> HIDE DEF created
<1>6. ASSUME NEW r \in created PROVE r.id \in Fanned
  <2>1. PICK o \in Owner : r.id = <<o, d.id>>
    BY <1>5
  <2>2. <<o, d.id>> \in Fanned
    BY <1>4 DEF Fanned
  <2> QED
    BY <2>1, <2>2
<1>7. SubsOK' /\ SubsInv' /\ RunsOK'
  BY <1>3, <1>5 DEF Inv, TypeOK, SubsOK, SubsInv, RunsOK, Enabled
<1>8. RunsInv(C)'
  <2>1. /\ \A r : ServedRun(r) => ServedRun(r)'
        /\ \A c \in C : Decided(c) => Decided(c)'
        /\ \A c \in C : c.subject = "run" /\ Has(c, "completed")' => Has(c, "completed")
        /\ Decided(d)' /\ ~Decided(d)
    BY <1>3, RecordInv DEF Inv
  <2>2. \A r : \A c \in C : FannedOut(r, c) => FannedOut(r, c)'
    BY <2>1 DEF FannedOut
  <2>3. \A r \in runs' : IF r.id \in Fanned THEN \E e \in C : FannedOut(r, e)' ELSE ServedRun(r)'
    <3> SUFFICES ASSUME NEW r \in runs'
                 PROVE  IF r.id \in Fanned THEN \E e \in C : FannedOut(r, e)' ELSE ServedRun(r)'
      OBVIOUS
    <3>1. CASE r \in runs
      BY <3>1, <2>1, <2>2 DEF Inv, RunsInv
    <3>2. CASE r \in created
      <4>1. FannedOut(r, d)'
        BY <1>3, <1>5, <2>1, <3>2 DEF FannedOut
      <4> QED
        BY <1>6, <3>2, <4>1
    <3> QED
      BY <1>3, <3>1, <3>2
  <2>4. \A c \in C : c.subject = "run" /\ c.form = "valid" /\ Has(c, "completed")' =>
                      \E r \in runs' : r.id = c.run /\ r.key = c.key
    BY <1>3, <2>1 DEF Inv, RunsInv
  <2>5. ASSUME NEW q \in runs, q.id \in Fanned PROVE q.key # d.key
    <3>1. PICK e \in C : FannedOut(q, e)
      BY <2>5 DEF Inv, RunsInv
    <3>2. q.key = d.key => Decided(d)
      BY <1>3, <3>1 DEF FannedOut, Decided, Key
    <3> QED
      BY <2>1, <3>2
  <2>6. ASSUME NEW q \in runs', NEW r \in runs', q.id \in Fanned, r.id \in Fanned,
               q.owner = r.owner, q.key = r.key
        PROVE  q = r
    <3>1. CASE q \in runs /\ r \in runs
      BY <2>6, <3>1 DEF Inv, RunsInv
    <3>2. CASE q \in created /\ r \in created
      BY <2>6, <3>2, <1>5
    <3>3. CASE q \in created /\ r \in runs
      BY <2>5, <2>6, <3>3, <1>5
    <3>4. CASE q \in runs /\ r \in created
      BY <2>5, <2>6, <3>4, <1>5
    <3> QED
      BY <1>3, <3>1, <3>2, <3>3, <3>4
  <2> QED
    BY <2>3, <2>4, <2>6 DEF RunsInv
<1>9. /\ reports' \in [Operation -> SUBSET Status] /\ Served(d) = {"succeeded"}
      /\ \A x \in Operation : reports'[x] = IF x = d.op THEN reports[x] \cup {"succeeded"} ELSE reports[x]
  BY <1>3, <1>4, ReportStep DEF Inv, Status, Served
<1> QED
  BY <1>1, <1>2, <1>3, <1>7, <1>8, <1>9, DecisionStep

-----------------------------------------------------------------------------
(***************************************************************************)
(* The theorems.                                                           *)
(***************************************************************************)

LEMMA InitInv == Init => IInv
<1> SUFFICES ASSUME Init PROVE IInv
  OBVIOUS
<1>1. PICK C \in Traffic : unsent = C
  BY DEF Init
<1>2. FromPlatform(C) /\ InboxInv(C) /\ RunsInv(C) /\ BusInv(C)
  BY <1>1 DEF Init, FromPlatform, InboxInv, RunsInv, BusInv, Has
<1>3. \A c \in C : HeardRight(c)
  BY CommandFacts DEF Init, HeardRight, Decided, Has
<1>4. SubsInv
  <2>1. \A o \in Owner : Enabled(o) = {}
    BY DEF Init, Enabled
  <2> QED
    BY <2>1, FS_EmptySet, IntakeBounds DEF SubsInv
<1>5. TypeOK
  <2>1. SubsOK /\ RunsOK /\ InboxOK /\ reports \in [Operation -> SUBSET Status]
    BY DEF Init, SubsOK, RunsOK, InboxOK
  <2>2. BusOK /\ ExecutorOK /\ now \in 0 .. MaxTime /\ faults \in 0 .. MaxFaults
    BY IntakeBounds DEF Init, BusOK, ExecutorOK
  <2> QED
    BY <1>2, <2>1, <2>2, TypeParts
<1> QED
  BY <1>2, <1>3, <1>4, <1>5 DEF IInv, Inv

LEMMA StepInv == IInv /\ [Next]_vars => IInv'
<1> SUFFICES ASSUME NEW C \in Traffic, Inv(C), [Next]_vars PROVE Inv(C)'
  BY DEF IInv
<1>1. CASE Replay
  <2>1. Known(cmd) /\ UNCHANGED database
    BY <1>1 DEF Replay
  <2> QED
    BY <2>1, QuietStep
<1>2. CASE Terminate \/ RefuseInvalid \/ RefuseLimit \/ RefuseRun \/ RunIdentityTaken
  <2>1. UNCHANGED database /\ ~(verdict' = "ack" /\ busPc' = "decided")
    BY <1>2 DEF Terminate, RefuseInvalid, RefuseLimit, RefuseRun, RunIdentityTaken, Decide, Refuse
  <2> QED
    BY <2>1, QuietStep
<1>3. CASE ~Handle
  <2>1. UNCHANGED database
    BY <1>3 DEF Next, Bus, Executor, Tick, Send, Deliver, Finish, Nak, Interrupt,
       SubscribedChannels, SelectSources, vars
  <2> QED
    BY <1>3, <2>1, QuietStep
<1> QED
  BY <1>1, <1>2, <1>3, RejectInv, SetInv, AcceptRunInv, AcceptOccurrenceInv DEF Handle

\* The inductive invariant of the intake holds in every reachable state.
THEOREM Invariance == Spec => []IInv
BY InitInv, StepInv, PTL DEF Spec

\* Every variable of the intake keeps its kind; the bus task holds a command exactly
\* while it works on one.
THEOREM TypeCorrect == Spec => []TypeOK
<1>1. IInv => TypeOK
  BY DEF IInv, Inv
<1> QED
  BY <1>1, Invariance, PTL

\* set_subscription: an owner never has more than Limit active subscriptions.
THEOREM LimitNeverExceeded == Spec => []LimitHolds
<1>1. IInv => LimitHolds
  BY DEF IInv, Inv, SubsInv, LimitHolds
<1> QED
  BY <1>1, Invariance, PTL

\* handle_command, intake.rs: an acknowledged command is decided, and its operation has
\* heard exactly what was done.
THEOREM AcknowledgedIsAnswered == Spec => []AckedIsAnswered
<1>1. ASSUME NEW C \in Traffic, Inv(C), NEW c \in acked
      PROVE  /\ Decided(c)
             /\ c.subject = "run" /\ c.form = "valid" =>
                    LET served == \E r \in runs : r.id = c.run /\ r.key = c.key
                    IN  reports[c.op] = IF ~served THEN {"failed"}
                                        ELSE IF c.trigger = "on_demand" THEN {"queued"}
                                        ELSE {}
             /\ ~(c.subject = "run" /\ c.form = "valid") => Cardinality(reports[c.op]) = 1
  <2>1. c \in C /\ Decided(c) /\ HeardRight(c)
    BY <1>1 DEF Inv, FromPlatform, BusInv
  <2>2. /\ Has(c, "completed") \/ Has(c, "failed")
        /\ ~(Has(c, "completed") /\ Has(c, "failed"))
        /\ Has(c, "completed") => c.form = "valid"
    BY <1>1, <2>1, DecidedHas DEF Inv
  <2>3. ASSUME c.subject = "run", c.form = "valid"
        PROVE  Has(c, "completed") <=> \E r \in runs : r.id = c.run /\ r.key = c.key
    <3>1. ASSUME NEW r \in runs, r.id = c.run, r.key = c.key PROVE Has(c, "completed")
      <4>1. r.id \notin Fanned
        BY <2>1, <2>3, <3>1, CommandFacts, CommandAssumption
      <4>2. ServedRun(r)
        BY <1>1, <4>1 DEF Inv, RunsInv
      <4> QED
        BY <2>3, <3>1, <4>2 DEF ServedRun, Has, Key
    <3> QED
      BY <1>1, <2>1, <2>3, <3>1 DEF Inv, RunsInv
  <2>4. c.subject = "run" /\ c.form = "valid" =>
          reports[c.op] = IF Has(c, "failed") THEN {"failed"}
                          ELSE IF c.trigger = "on_demand" THEN {"queued"} ELSE {}
    BY <2>1, <2>2 DEF HeardRight, Served
  <2>5. ASSUME ~(c.subject = "run" /\ c.form = "valid")
        PROVE  reports[c.op] = {"failed"} \/ reports[c.op] = {"succeeded"}
    BY <2>1, <2>2, <2>5 DEF HeardRight, Served
  <2> QED
    BY <2>1, <2>2, <2>3, <2>4, <2>5, FS_Singleton
<1>2. IInv => AckedIsAnswered
  BY <1>1 DEF IInv, AckedIsAnswered
<1> QED
  BY <1>2, Invariance, PTL

\* accept_occurrence, normalized_window: the windows of an owner's scheduled runs are not
\* empty, no longer than Cap, and no two of them share an instant.
THEOREM WindowsAreDisjoint == Spec => []ScheduledWindows
<1>1. ASSUME NEW C \in Traffic, Inv(C), NEW r \in runs, r.id \in Fanned
      PROVE  \E d \in C : FannedOut(r, d) /\ d.due \in Int /\ d.previous \in Int
  <2>1. PICK d \in C : FannedOut(r, d)
    BY <1>1 DEF Inv, RunsInv
  <2> QED
    BY <2>1, CommandFacts, CommandAssumption DEF FannedOut
<1>2. ASSUME NEW C \in Traffic, Inv(C), NEW q \in runs, NEW r \in runs,
             q.id \in Fanned, r.id \in Fanned, q.owner = r.owner, q # r
      PROVE  q.window[2] <= r.window[1] \/ r.window[2] <= q.window[1]
  <2>1. q.key # r.key
    BY <1>2 DEF Inv, RunsInv
  <2>2. PICK d \in C : FannedOut(q, d) /\ d.due \in Int /\ d.previous \in Int
    BY <1>1, <1>2
  <2>3. PICK e \in C : FannedOut(r, e) /\ e.due \in Int /\ e.previous \in Int
    BY <1>1, <1>2
  <2>4. d.due <= e.previous \/ e.due <= d.previous
    BY <2>1, <2>2, <2>3, PlatformAssumption DEF FannedOut
  <2> QED
    BY <2>2, <2>3, <2>4 DEF FannedOut
<1>3. IInv => ScheduledWindows
  BY <1>1, <1>2 DEF IInv, ScheduledWindows, FannedOut
<1> QED
  BY <1>3, Invariance, PTL

\* intake.rs: a redelivered or republished command that was decided changes nothing.
THEOREM DecidedForGood == Spec => DecidedOnce
<1>1. [Next]_vars => [cmd # None /\ Decided(cmd) => UNCHANGED <<subs, runs, reports, inbox>>]_vars
  <2> SUFFICES ASSUME Next, Decided(cmd) PROVE UNCHANGED <<subs, runs, reports, inbox>>
    OBVIOUS
  <2>1. Known(cmd)
    BY DEF Known, Decided
  <2>2. CASE Handle
    BY <2>1, <2>2 DEF Handle, Terminate, Replay, RefuseInvalid, Reject, SetSubscription, RefuseLimit,
       AcceptRun, RefuseRun, RunIdentityTaken, AcceptOccurrence, Fresh, database
  <2> QED
    BY <2>2 DEF Next, Bus, Executor, Tick, Send, Deliver, Finish, Nak, Interrupt,
       SubscribedChannels, SelectSources, database
<1> QED
  BY <1>1, PTL DEF Spec, DecidedOnce
=============================================================================
