---------------------------- MODULE RunLogProofs ----------------------------
(***************************************************************************)
(* What the operators of RunLog return, for every log and limit.           *)
(***************************************************************************)
EXTENDS RunLog, SequenceTheorems, TLAPS

\* A pushed run is the newest one of a log that still respects the limit.
LEMMA PushProperties ==
    ASSUME NEW log \in Logs, NEW r \in Reports
    PROVE  /\ Push(log, r) \in Logs
           /\ Push(log, r) # <<>>
           /\ Newest(Push(log, r)) = r
<1>1. log \in Seq(Reports) /\ Len(log) \in Nat /\ Len(log) <= Limit
  BY DEF Logs
<1>2. CASE Len(log) < Limit
  <2>1. Push(log, r) = Append(log, r)
    BY <1>2 DEF Push
  <2>2. /\ Append(log, r) \in Seq(Reports)
        /\ Len(Append(log, r)) = Len(log) + 1
        /\ Append(log, r)[Len(log) + 1] = r
    BY <1>1, AppendProperties
  <2>3. QED
    BY <1>1, <1>2, <2>1, <2>2, LimitAssumption DEF Logs, Newest
<1>3. CASE ~(Len(log) < Limit)
  <2>1. Push(log, r) = Append(Tail(log), r)
    BY <1>3 DEF Push
  <2>2. log # <<>>
    BY <1>1, <1>3, LimitAssumption
  <2>3. Tail(log) \in Seq(Reports) /\ Len(Tail(log)) = Len(log) - 1
    BY <1>1, <2>2, HeadTailProperties
  <2>4. /\ Append(Tail(log), r) \in Seq(Reports)
        /\ Len(Append(Tail(log), r)) = Len(Tail(log)) + 1
        /\ Append(Tail(log), r)[Len(Tail(log)) + 1] = r
    BY <2>3, AppendProperties
  <2>5. QED
    BY <1>1, <1>3, <2>1, <2>3, <2>4, LimitAssumption DEF Logs, Newest
<1>4. QED
  BY <1>2, <1>3

\* A pushed run adds nothing to an empty log, and what the newest run had not
\* to any other.
LEMMA NewFindingsOfPush ==
    ASSUME NEW log \in Logs, NEW r \in Reports
    PROVE  NewFindings(Push(log, r)) = IF log = <<>> THEN {} ELSE r \ Newest(log)
<1>1. /\ log \in Seq(Reports) /\ Len(log) \in Nat /\ Len(log) <= Limit
      /\ Limit \in Nat /\ Limit >= 2
  BY LimitAssumption DEF Logs
<1>2. log = <<>> <=> Len(log) = 0
  BY <1>1, EmptySeq
<1>3. CASE Len(log) < Limit
  <2>1. Push(log, r) = Append(log, r)
    BY <1>3 DEF Push
  <2>2. /\ Len(Append(log, r)) = Len(log) + 1
        /\ \A i \in 1..Len(log) : Append(log, r)[i] = log[i]
        /\ Append(log, r)[Len(log) + 1] = r
    BY <1>1, AppendProperties
  <2>3. CASE Len(log) = 0
    BY <1>2, <2>1, <2>2, <2>3 DEF NewFindings
  <2>4. CASE Len(log) # 0
    <3>1. Len(log) \in 1..Len(log) /\ ~(Len(log) + 1 < 2) /\ (Len(log) + 1) - 1 = Len(log)
      BY <1>1, <2>4
    <3>2. Push(log, r)[Len(log) + 1] = r /\ Push(log, r)[Len(log)] = log[Len(log)]
      BY <2>1, <2>2, <3>1
    <3>3. QED
      BY <1>2, <2>1, <2>2, <2>4, <3>1, <3>2 DEF NewFindings, Newest
  <2>5. QED
    BY <2>3, <2>4
<1>4. CASE ~(Len(log) < Limit)
  <2>1. Push(log, r) = Append(Tail(log), r) /\ log # <<>> /\ Len(log) >= 2
    BY <1>1, <1>2, <1>4 DEF Push
  <2>2. /\ Tail(log) \in Seq(Reports) /\ Len(Tail(log)) = Len(log) - 1
        /\ \A i \in 1..(Len(log) - 1) : Tail(log)[i] = log[i + 1]
    BY <1>1, <2>1, HeadTailProperties
  <2>3. /\ Len(Append(Tail(log), r)) = Len(Tail(log)) + 1
        /\ \A i \in 1..Len(Tail(log)) : Append(Tail(log), r)[i] = Tail(log)[i]
        /\ Append(Tail(log), r)[Len(Tail(log)) + 1] = r
    BY <2>2, AppendProperties
  <2>4. /\ Len(Push(log, r)) = Len(log)
        /\ Push(log, r)[Len(log)] = r /\ Push(log, r)[Len(log) - 1] = log[Len(log)]
    <3>1. Len(log) - 1 \in 1..(Len(log) - 1) /\ (Len(log) - 1) + 1 = Len(log)
      BY <1>1, <2>1
    <3>2. QED
      BY <2>1, <2>2, <2>3, <3>1
  <2>5. ~(Len(log) < 2)
    BY <1>1, <2>1
  <2>6. QED
    BY <2>1, <2>4, <2>5 DEF NewFindings, Newest
<1>5. QED
  BY <1>3, <1>4

\* What is new is part of the newest report.
LEMMA NewFindingsType ==
    ASSUME NEW log \in Logs
    PROVE  NewFindings(log) \in Reports
<1>1. CASE Len(log) < 2
  BY <1>1 DEF NewFindings, Reports
<1>2. CASE ~(Len(log) < 2)
  <2>1. Len(log) \in Nat /\ log \in Seq(Reports)
    BY DEF Logs
  <2>2. log[Len(log)] \in Reports
    BY <1>2, <2>1, ElementOfSeq
  <2>3. QED
    BY <1>2, <2>2 DEF NewFindings, Reports
<1>3. QED
  BY <1>1, <1>2
=============================================================================
