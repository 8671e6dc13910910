---------------------------- MODULE Agent_proofs ----------------------------
(***************************************************************************)
(* Proofs about the agent of a node: its statements, its texts, the        *)
(* context it asks the language model with, the threads of the process     *)
(* that runs it, and its configuration.  No two of them share a variable.  *)
(***************************************************************************)
EXTENDS
    StatementMemory, AgentMemory, ContextBuilder, NodeLife, ConfigFile,
    Selection_proofs, SequenceTheorems

-----------------------------------------------------------------------------
(* The statements and the record: StatementMemory *)

\* One statement stands for what was said before id next, and was not deleted.
Sound(s, gone, next) ==
    /\ s.covers # {} /\ s.covers \cap gone = {} /\ s.id < next
    /\ IF IsSummary(s) THEN \A id \in s.covers : id < s.id ELSE s.covers = {s.id}

\* Statements stand for different things, in their order.
Kept(list, gone, next) ==
    /\ list \in Seq(Statement)
    /\ \A i \in DOMAIN list : Sound(list[i], gone, next)
    /\ \A i, j \in DOMAIN list : i # j =>
          list[i].id # list[j].id /\ list[i].covers \cap list[j].covers = {}
    /\ \A i, j \in DOMAIN list : i < j => First(list[i]) < First(list[j])

\* What the statements at some places of a list stand for, and all of the list.
Together(list, P) == UNION {list[i].covers : i \in P}
AllOf(list) == Together(list, DOMAIN list)

\* There are ids for the commands that are left and for the record.
IdsLeft ==
    /\ pc \in {"generating", "recording"} => m_statement_sequence + 2 =< MaxSequence
    /\ pc = "executing" => m_statement_sequence + 2 * Len(commands) + 2 =< MaxSequence
    /\ pc \in {"generating", "executing"} => round < MaxRounds

StatementInv ==
    /\ TypeOK
    /\ IdsLeft
    /\ \A id \in deleted : id < m_statement_sequence
    /\ Kept(m_statements, deleted, m_statement_sequence)
    /\ said = deleted \cup AllOf(m_statements)

-----------------------------------------------------------------------------
(* Lemmas about statements *)

\* The id of a statement and the ids that it stands for are numbers.
LEMMA StatementTypes ==
    ASSUME NEW s \in Statement
    PROVE  /\ s.id \in IDs /\ s.id \in Nat /\ s.type \in Types
           /\ s.covers \in SUBSET IDs /\ s.covers \in SUBSET Nat
  BY MemoryAssumption DEF Statement, IDs

\* What a statement stands for began with one of its ids.
LEMMA FirstProperties ==
    ASSUME NEW s, s.covers \in SUBSET Nat, s.covers # {}
    PROVE  /\ First(s) \in s.covers /\ First(s) \in Nat
           /\ \A id \in s.covers : First(s) =< id
  <1>1. /\ First(s) \in s.covers
        /\ \A id \in s.covers : First(s) =< id
    BY LeastChosen DEF First
  <1> QED BY <1>1

\* What a summary stands for was said before it was made, as with any statement.
LEMMA CoversAreOld ==
    ASSUME NEW s \in Statement, NEW gone, NEW next \in Nat, Sound(s, gone, next)
    PROVE  \A id \in s.covers : id < next /\ id =< s.id
  <1>1. s.id \in Nat /\ s.covers \in SUBSET Nat
    BY StatementTypes
  <1>2. CASE IsSummary(s)
    BY <1>1, <1>2 DEF Sound
  <1>3. CASE ~IsSummary(s)
    BY <1>1, <1>3 DEF Sound
  <1> QED BY <1>2, <1>3

\* Statements that are left by a selection are as they were.
LEMMA KeptSelected ==
    ASSUME NEW list, NEW gone, NEW next, Kept(list, gone, next),
           NEW P \in SUBSET DOMAIN list,
           NEW more, \A i \in P : list[i].covers \cap more = {}
    PROVE  Kept(Selected(list, P), more, next)
  <1> DEFINE rest == Selected(list, P)
             place == Ordered(P)
  <1>1. list \in Seq(Statement)
    BY DEF Kept
  <1>2. /\ rest \in Seq(Statement)
        /\ place \in [DOMAIN rest -> P]
        /\ \A k \in DOMAIN rest : rest[k] = list[place[k]]
        /\ \A k, l \in DOMAIN rest : k < l => place[k] < place[l]
        /\ DOMAIN rest \subseteq Int
    BY <1>1, SelectedProperties
  <1> HIDE DEF rest, place
  <1>3. \A k \in DOMAIN rest : /\ place[k] \in P /\ place[k] \in DOMAIN list /\ place[k] \in Int
                               /\ rest[k] = list[place[k]]
    BY <1>1, <1>2
  <1>4. \A k, l \in DOMAIN rest : k # l => place[k] # place[l]
    <2> SUFFICES ASSUME NEW k \in DOMAIN rest, NEW l \in DOMAIN rest, k # l
                 PROVE  place[k] # place[l]
      OBVIOUS
    <2>1. k < l \/ l < k
      BY <1>2
    <2>2. place[k] < place[l] \/ place[l] < place[k]
      BY <1>2, <2>1
    <2> QED BY <1>3, <2>2
  <1>5. \A k \in DOMAIN rest : Sound(rest[k], more, next)
    BY <1>3 DEF Kept, Sound
  <1>6. \A k, l \in DOMAIN rest : k # l =>
           rest[k].id # rest[l].id /\ rest[k].covers \cap rest[l].covers = {}
    BY <1>3, <1>4 DEF Kept
  <1>7. \A k, l \in DOMAIN rest : k < l => First(rest[k]) < First(rest[l])
    BY <1>2, <1>3 DEF Kept
  <1>8. Kept(rest, more, next)
    BY <1>2, <1>5, <1>6, <1>7 DEF Kept
  <1> QED BY <1>8 DEF rest

\* A new statement, with a new id, comes last.
LEMMA KeptSaid ==
    ASSUME NEW list, NEW gone, NEW next \in Nat, Kept(list, gone, next),
           NEW id \in IDs, next =< id, NEW type \in Types \ {"SUMMARY"},
           \A old \in gone : old < next, gone \subseteq IDs
    PROVE  Kept(Append(list, Said(id, type)), gone, id + 1)
  <1> DEFINE new == Said(id, type)
             more == Append(list, new)
  <1>1. /\ list \in Seq(Statement) /\ id \in Nat
        /\ new \in Statement /\ new.id = id /\ new.covers = {id} /\ ~IsSummary(new)
    BY MemoryAssumption DEF Kept, Said, Statement, IDs, IsSummary
  <1>2. First(new) = id
    BY <1>1, FirstProperties
  <1>3. id \notin gone
    BY <1>1
  <1> HIDE DEF new
  <1>4. /\ more \in Seq(Statement)
        /\ DOMAIN more = 1..(Len(list) + 1) /\ DOMAIN list = 1..Len(list) /\ Len(list) \in Nat
        /\ \A k \in DOMAIN list : more[k] = list[k]
        /\ more[Len(list) + 1] = new
    BY <1>1
  <1> HIDE DEF more
  <1>5. ASSUME NEW k \in DOMAIN list
        PROVE  /\ Sound(list[k], gone, id + 1) /\ list[k].id # id /\ id \notin list[k].covers
               /\ First(list[k]) < id
    <2>1. list[k] \in Statement /\ Sound(list[k], gone, next)
      BY <1>1 DEF Kept
    <2>2. list[k].id \in Nat /\ list[k].covers \in SUBSET Nat /\ list[k].id < next
      BY <2>1, StatementTypes DEF Sound
    <2>3. \A old \in list[k].covers : old < next
      BY <2>1, CoversAreOld
    <2>4. First(list[k]) \in list[k].covers /\ First(list[k]) \in Nat
      BY <2>1, <2>2, FirstProperties DEF Sound
    <2>5. list[k].id < id + 1 /\ list[k].id # id /\ id \notin list[k].covers /\ First(list[k]) < id
      BY <1>1, <2>2, <2>3, <2>4
    <2> QED BY <2>1, <2>5 DEF Sound
  <1>6. Sound(new, gone, id + 1)
    BY <1>1, <1>3 DEF Sound
  <1>7. \A k \in DOMAIN more : k \in DOMAIN list \/ k = Len(list) + 1
    BY <1>4
  <1>8. \A k \in DOMAIN more : Sound(more[k], gone, id + 1)
    BY <1>4, <1>5, <1>6, <1>7
  <1>9. \A k, l \in DOMAIN more : k # l =>
           more[k].id # more[l].id /\ more[k].covers \cap more[l].covers = {}
    BY <1>1, <1>4, <1>5, <1>7 DEF Kept
  <1>10. ASSUME NEW k \in DOMAIN more, NEW l \in DOMAIN more, k < l
         PROVE  First(more[k]) < First(more[l])
    <2>1. k \in DOMAIN list
      BY <1>4, <1>7, <1>10
    <2>2. CASE l \in DOMAIN list
      BY <1>4, <1>10, <2>1, <2>2 DEF Kept
    <2>3. CASE l = Len(list) + 1
      BY <1>2, <1>4, <1>5, <2>1, <2>3
    <2> QED BY <1>7, <2>2, <2>3
  <1>11. Kept(more, gone, id + 1)
    BY <1>4, <1>8, <1>9, <1>10 DEF Kept
  <1> QED BY <1>11 DEF more, new

\* What an insertion leaves in place and what it moves.
LEMMA InsertProperties ==
    ASSUME NEW S, NEW s \in Seq(S), NEW e \in S, NEW i \in 1..(Len(s) + 1)
    PROVE  /\ InsertAt(s, i, e) \in Seq(S) /\ DOMAIN InsertAt(s, i, e) = 1..(Len(s) + 1)
           /\ \A k \in 1..(Len(s) + 1) :
                 /\ k < i => InsertAt(s, i, e)[k] = s[k]
                 /\ k = i => InsertAt(s, i, e)[k] = e
                 /\ k > i => InsertAt(s, i, e)[k] = s[k - 1]
  <1> DEFINE before == SubSeq(s, 1, i - 1)
             after == SubSeq(s, i, Len(s))
  <1>1. i \in Nat /\ i >= 1 /\ Len(s) \in Nat /\ i =< Len(s) + 1
    OBVIOUS
  <1>2. /\ before \in Seq(S) /\ Len(before) = i - 1
        /\ \A k \in 1..(i - 1) : before[k] = s[k]
    BY <1>1
  <1>3. /\ after \in Seq(S) /\ Len(after) = Len(s) - i + 1
        /\ \A k \in 1..(Len(s) - i + 1) : after[k] = s[i + k - 1]
    <2>1. CASE i =< Len(s)
      BY <1>1, <2>1
    <2>2. CASE i = Len(s) + 1
      <3>1. after = <<>>
        BY <1>1, <2>2
      <3> QED BY <1>1, <2>2, <3>1
    <2> QED BY <1>1, <2>1, <2>2
  <1>4. InsertAt(s, i, e) = (before \o <<e>>) \o after
    BY DEF InsertAt
  <1> HIDE DEF before, after
  <1> DEFINE start == before \o <<e>>
  <1>5. /\ start \in Seq(S) /\ Len(start) = i
        /\ \A k \in 1..i : start[k] = IF k < i THEN s[k] ELSE e
    BY <1>1, <1>2
  <1> HIDE DEF start
  <1>6. /\ start \o after \in Seq(S) /\ Len(start \o after) = Len(s) + 1
    BY <1>1, <1>3, <1>5
  <1>7. ASSUME NEW k \in 1..(Len(s) + 1)
        PROVE  /\ k < i => (start \o after)[k] = s[k]
               /\ k = i => (start \o after)[k] = e
               /\ k > i => (start \o after)[k] = s[k - 1]
    <2>1. CASE k =< i
      <3>1. (start \o after)[k] = start[k] /\ k \in 1..i
        BY <1>1, <1>3, <1>5, <2>1
      <3>2. k < i \/ k = i
        BY <1>1, <2>1
      <3>3. CASE k < i
        BY <1>5, <3>1, <3>3
      <3>4. CASE k = i
        <4>1. ~(k < i)
          BY <1>1, <3>4
        <4> QED BY <1>5, <3>1, <3>4, <4>1
      <3> QED BY <3>2, <3>3, <3>4
    <2>2. CASE k > i
      <3>1. k - i \in 1..(Len(s) - i + 1) /\ i + (k - i) - 1 = k - 1 /\ ~(k < i) /\ k # i
        BY <1>1, <2>2
      <3>2. (start \o after)[k] = after[k - i]
        BY <1>1, <1>3, <1>5, <2>2, <3>1
      <3> QED BY <1>3, <3>1, <3>2
    <2>3. k =< i \/ k > i
      BY <1>1
    <2> QED BY <2>1, <2>2, <2>3
  <1>8. DOMAIN (start \o after) = 1..(Len(s) + 1)
    BY <1>6
  <1> QED BY <1>4, <1>6, <1>7, <1>8 DEF start

\* A summary takes the place of the first of what it stands for.
LEMMA KeptCompressed ==
    ASSUME StatementInv, NEW target \in SUBSET DOMAIN m_statements, target # {},
           m_statement_sequence < MaxSequence
    PROVE  Kept(Compressed(m_statement_sequence, target), deleted, m_statement_sequence + 1)
  <1> DEFINE list == m_statements
             next == m_statement_sequence
             first == CHOOSE i \in target : \A j \in target : i =< j
             P == DOMAIN list \ target
             rest == Without(target)
             new == Summary(next, target)
             result == Compressed(next, target)
             place == Ordered(P)
  <1>1. /\ list \in Seq(Statement) /\ next \in Nat /\ next \in IDs
        /\ Kept(list, deleted, next) /\ DOMAIN list = 1..Len(list) /\ Len(list) \in Nat
    BY MemoryAssumption DEF StatementInv, Kept, TypeOK, IDs
  <1>2. first \in target /\ \A j \in target : first =< j
    <2>1. target \in SUBSET Nat
      BY <1>1
    <2> HIDE DEF first
    <2> QED BY <2>1, LeastChosen DEF first
  <1>3. rest = Selected(list, P)
    BY DEF Without
  <1>4. result = InsertAt(rest, first, new)
    BY DEF Compressed
  <1> HIDE DEF list, next, first, rest, new, result
  <1>5. P \in SUBSET DOMAIN list
    OBVIOUS
  <1>6. \A i \in P : list[i].covers \cap deleted = {}
    BY <1>1 DEF Kept, Sound
  <1> HIDE DEF P, place
  <1>7. Kept(rest, deleted, next)
    BY <1>1, <1>3, <1>5, <1>6, KeptSelected
  <1>8. /\ rest \in Seq(Statement) /\ Len(rest) \in Nat /\ DOMAIN rest = 1..Len(rest)
        /\ Len(rest) = Cardinality(P)
        /\ place \in [DOMAIN rest -> P]
        /\ \A k \in DOMAIN rest : rest[k] = list[place[k]]
    BY <1>1, <1>3, <1>5, SelectedProperties DEF place
  <1>9. first =< Len(rest) + 1 /\ \A k \in DOMAIN rest : place[k] < first <=> k < first
    <2>1. first \in 1..Len(list) /\ first \notin P /\ P \in SUBSET (1..Len(list))
      BY <1>1, <1>2, <1>5 DEF P, list
    <2>2. ASSUME NEW j \in 1..Len(list), j < first PROVE j \in P
      <3>1. j \notin target
        BY <1>2, <2>1, <2>2
      <3> QED BY <1>1, <3>1 DEF P
    <2> QED BY <1>1, <1>8, <2>1, <2>2, PlacesBefore DEF place
  <1>10. /\ new.id = next /\ IsSummary(new)
         /\ new.covers = UNION {list[i].covers : i \in target}
         /\ new \in Statement
    <2>1. \A i \in target : list[i].covers \in SUBSET IDs
      <3>1. \A i \in target : list[i] \in Statement
        BY <1>1 DEF list
      <3> QED BY <3>1, StatementTypes
    <2> QED BY <1>1, <2>1 DEF new, Summary, Covered, IsSummary, Statement, Types, list
  <1>11. ASSUME NEW i \in DOMAIN list
         PROVE  /\ list[i].covers \in SUBSET Nat /\ list[i].covers # {} /\ list[i].id < next
                /\ \A id \in list[i].covers : id < next
                /\ First(list[i]) \in list[i].covers /\ First(list[i]) \in Nat
                /\ \A id \in list[i].covers : First(list[i]) =< id
                /\ list[i].covers \cap deleted = {} /\ list[i].id \in Nat
    <2>1. list[i] \in Statement /\ Sound(list[i], deleted, next)
      BY <1>1 DEF Kept
    <2> QED BY <1>1, <2>1, StatementTypes, CoversAreOld, FirstProperties DEF Sound
  <1>12. first \in DOMAIN list /\ target \in SUBSET DOMAIN list
    BY <1>2 DEF list
  <1>13. Sound(new, deleted, next + 1)
    <2>1. new.covers # {} /\ new.covers \cap deleted = {} /\ \A id \in new.covers : id < next
      BY <1>10, <1>11, <1>12, <1>2
    <2> QED BY <1>1, <1>10, <2>1 DEF Sound
  <1>14. First(new) = First(list[first])
    <2>1. new.covers \in SUBSET Nat /\ new.covers # {}
      BY <1>10, <1>11, <1>12, <1>2
    <2>2. First(new) \in new.covers /\ First(new) \in Nat /\ \A id \in new.covers : First(new) =< id
      BY <2>1, FirstProperties
    <2>3. First(list[first]) \in new.covers /\ First(list[first]) \in Nat
      BY <1>2, <1>10, <1>11, <1>12
    <2>4. ASSUME NEW id \in new.covers PROVE First(list[first]) =< id
      <3>1. PICK i \in target : id \in list[i].covers
        BY <1>10
      <3>2. First(list[i]) =< id /\ First(list[i]) \in Nat /\ id \in Nat
        BY <1>11, <1>12, <3>1, <2>1
      <3>3. first < i \/ first = i
        BY <1>1, <1>2, <1>12
      <3>4. First(list[first]) =< First(list[i])
        BY <1>1, <1>12, <2>3, <3>2, <3>3 DEF Kept
      <3> QED BY <2>3, <3>2, <3>4
    <2> QED BY <2>2, <2>3, <2>4
  \* The statements that stay, beside the summary.
  <1>15. ASSUME NEW k \in DOMAIN rest
         PROVE  /\ rest[k].id # new.id /\ rest[k].covers \cap new.covers = {}
                /\ k < first => First(rest[k]) < First(new)
                /\ ~(k < first) => First(new) < First(rest[k])
                /\ Sound(rest[k], deleted, next + 1)
    <2>1. place[k] \in P /\ place[k] \in DOMAIN list /\ place[k] \notin target /\ rest[k] = list[place[k]]
      BY <1>5, <1>8 DEF P
    <2>2. rest[k].id # new.id /\ rest[k].id < next + 1
      BY <1>1, <1>10, <1>11, <2>1
    <2>3. rest[k].covers \cap new.covers = {}
      BY <1>1, <1>10, <1>12, <2>1 DEF Kept
    <2>4. place[k] \in Int /\ first \in Int /\ place[k] # first
      BY <1>1, <1>2, <1>12, <2>1
    <2>5. k < first => First(rest[k]) < First(new)
      BY <1>1, <1>9, <1>12, <1>14, <2>1 DEF Kept
    <2>6. ASSUME ~(k < first) PROVE First(new) < First(rest[k])
      <3>1. first < place[k]
        BY <1>9, <2>4, <2>6
      <3> QED BY <1>1, <1>12, <1>14, <2>1, <3>1 DEF Kept
    <2>7. Sound(rest[k], deleted, next + 1)
      BY <1>7, <2>2 DEF Kept, Sound
    <2> QED BY <2>2, <2>3, <2>5, <2>6, <2>7
  <1>16. first \in 1..(Len(rest) + 1)
    BY <1>1, <1>9, <1>12
  <1>17. /\ result \in Seq(Statement) /\ DOMAIN result = 1..(Len(rest) + 1)
         /\ \A k \in DOMAIN result :
               \/ k < first /\ k \in DOMAIN rest /\ result[k] = rest[k]
               \/ k = first /\ result[k] = new
               \/ first < k /\ k - 1 \in DOMAIN rest /\ ~(k - 1 < first) /\ result[k] = rest[k - 1]
    <2>1. /\ result \in Seq(Statement) /\ DOMAIN result = 1..(Len(rest) + 1)
          /\ \A k \in 1..(Len(rest) + 1) :
                /\ k < first => result[k] = rest[k]
                /\ k = first => result[k] = new
                /\ k > first => result[k] = rest[k - 1]
      <3>1. rest \in Seq(Statement) /\ new \in Statement /\ first \in 1..(Len(rest) + 1)
        BY <1>8, <1>10, <1>16
      <3>2. InsertAt(rest, first, new) \in Seq(Statement)
        BY <3>1, InsertProperties
      <3>3. DOMAIN InsertAt(rest, first, new) = 1..(Len(rest) + 1)
        BY <3>1, InsertProperties
      <3>4. ASSUME NEW k \in 1..(Len(rest) + 1)
            PROVE  /\ k < first => InsertAt(rest, first, new)[k] = rest[k]
                   /\ k = first => InsertAt(rest, first, new)[k] = new
                   /\ k > first => InsertAt(rest, first, new)[k] = rest[k - 1]
        BY <3>1, InsertProperties
      <3> QED BY <1>4, <3>2, <3>3, <3>4
    <2>2. ASSUME NEW k \in 1..(Len(rest) + 1)
          PROVE  /\ k < first => k \in DOMAIN rest
                 /\ first < k => k - 1 \in DOMAIN rest /\ ~(k - 1 < first) /\ ~(k < first) /\ k # first
                 /\ k = first => ~(k < first)
                 /\ k < first \/ k = first \/ first < k
      BY <1>8, <1>16
    <2> QED BY <2>1, <2>2
  <1>18. \A k \in DOMAIN result : Sound(result[k], deleted, next + 1)
    BY <1>13, <1>15, <1>17
  <1>19. ASSUME NEW k \in DOMAIN result, NEW l \in DOMAIN result, k < l
         PROVE  /\ result[k].id # result[l].id /\ result[k].covers \cap result[l].covers = {}
                /\ First(result[k]) < First(result[l])
    <2>1. k \in Int /\ l \in Int /\ first \in Int
      BY <1>8, <1>16, <1>17
    <2>2. \A i, j \in DOMAIN rest : i < j =>
             /\ rest[i].id # rest[j].id /\ rest[i].covers \cap rest[j].covers = {}
             /\ First(rest[i]) < First(rest[j])
      <3>1. DOMAIN rest \subseteq Int
        BY <1>8
      <3>2. \A i, j \in Int : i < j => i # j
        OBVIOUS
      <3> QED BY <1>7, <3>1, <3>2 DEF Kept
    <2>3. CASE l < first
      <3>1. k < first
        BY <1>19, <2>1, <2>3
      <3> QED BY <1>17, <1>19, <2>1, <2>2, <2>3, <3>1
    <2>4. CASE l = first
      <3>1. k \in DOMAIN rest /\ result[k] = rest[k] /\ result[l] = new /\ k < first
        BY <1>17, <1>19, <2>1, <2>4
      <3> QED BY <1>15, <3>1
    <2>5. CASE first < l
      <3>1. l - 1 \in DOMAIN rest /\ ~(l - 1 < first) /\ result[l] = rest[l - 1]
        BY <1>17, <2>1, <2>5
      <3>2. CASE k < first
        <4>1. k \in DOMAIN rest /\ result[k] = rest[k] /\ k < l - 1
          BY <1>17, <2>1, <2>5, <3>2
        <4> QED BY <2>2, <3>1, <4>1
      <3>3. CASE k = first
        <4>1. result[k] = new
          BY <1>17, <2>1, <3>3
        <4> QED BY <1>15, <3>1, <4>1
      <3>4. CASE first < k
        <4>1. k - 1 \in DOMAIN rest /\ result[k] = rest[k - 1] /\ k - 1 < l - 1
          BY <1>17, <1>19, <2>1, <3>4
        <4> QED BY <2>2, <3>1, <4>1
      <3> QED BY <2>1, <3>2, <3>3, <3>4
    <2> QED BY <2>1, <2>3, <2>4, <2>5
  <1>20. ASSUME NEW k \in DOMAIN result, NEW l \in DOMAIN result, k # l
         PROVE  result[k].id # result[l].id /\ result[k].covers \cap result[l].covers = {}
    <2>1. k < l \/ l < k
      BY <1>8, <1>17, <1>20
    <2> QED BY <1>19, <2>1
  <1>21. Kept(result, deleted, next + 1)
    BY <1>17, <1>18, <1>19, <1>20 DEF Kept
  <1> QED BY <1>21 DEF result, next

\* An id for which one of the statements at some places stands.
LEMMA InTogether ==
    ASSUME NEW list, NEW P, NEW x
    PROVE  x \in Together(list, P) <=> \E i \in P : x \in list[i].covers
  BY Zenon DEF Together

\* What the statements of two sets of places stand for.
LEMMA TogetherSplit ==
    ASSUME NEW list, NEW P, NEW Q
    PROVE  Together(list, P \cup Q) = Together(list, P) \cup Together(list, Q)
  <1>1. ASSUME NEW x
        PROVE  x \in Together(list, P \cup Q) <=> x \in Together(list, P) \/ x \in Together(list, Q)
    <2>1. /\ x \in Together(list, P \cup Q) <=> \E i \in P \cup Q : x \in list[i].covers
          /\ x \in Together(list, P) <=> \E i \in P : x \in list[i].covers
          /\ x \in Together(list, Q) <=> \E i \in Q : x \in list[i].covers
      BY InTogether
    <2> QED BY <2>1, Zenon
  <1> QED BY <1>1

\* Statements at the places of a set stand for what they stand for in the list.
LEMMA AllOfSelected ==
    ASSUME NEW list \in Seq(Statement), NEW P \in SUBSET DOMAIN list
    PROVE  AllOf(Selected(list, P)) = Together(list, P)
  <1> DEFINE rest == Selected(list, P)
             place == Ordered(P)
  <1>1. /\ place \in [DOMAIN rest -> P]
        /\ \A k \in DOMAIN rest : rest[k] = list[place[k]]
        /\ \A i \in P : \E k \in DOMAIN rest : place[k] = i
    BY SelectedProperties
  <1> HIDE DEF rest, place
  <1>2. \A k \in DOMAIN rest : place[k] \in P /\ rest[k].covers = list[place[k]].covers
    BY <1>1
  <1>3. \A i \in P : \E k \in DOMAIN rest : rest[k].covers = list[i].covers
    BY <1>1
  <1>4. {rest[k].covers : k \in DOMAIN rest} = {list[i].covers : i \in P}
    BY <1>2, <1>3
  <1> QED BY <1>4 DEF AllOf, Together, rest

\* A statement that is appended stands for its own id.
LEMMA AllOfSaid ==
    ASSUME NEW list \in Seq(Statement), NEW id, NEW type
    PROVE  AllOf(Append(list, Said(id, type))) = AllOf(list) \cup {id}
  <1> DEFINE new == Said(id, type)
             more == Append(list, new)
  <1>1. new.covers = {id}
    BY DEF Said
  <1>2. list \in Seq(Statement \cup {new}) /\ new \in Statement \cup {new}
    OBVIOUS
  <1> HIDE DEF new
  <1>3. /\ DOMAIN more = DOMAIN list \cup {Len(list) + 1}
        /\ \A k \in DOMAIN list : more[k] = list[k]
        /\ more[Len(list) + 1] = new
    BY <1>2
  <1> HIDE DEF more
  <1>4. {more[k].covers : k \in DOMAIN more} = {list[k].covers : k \in DOMAIN list} \cup {{id}}
    BY <1>1, <1>3
  <1> QED BY <1>4 DEF AllOf, Together, more, new

\* A statement that is inserted adds what it stands for.
LEMMA AllOfInserted ==
    ASSUME NEW list \in Seq(Statement), NEW new \in Statement, NEW i \in 1..(Len(list) + 1)
    PROVE  AllOf(InsertAt(list, i, new)) = AllOf(list) \cup new.covers
  <1> DEFINE more == InsertAt(list, i, new)
  <1>1. /\ DOMAIN more = 1..(Len(list) + 1)
        /\ \A k \in 1..(Len(list) + 1) :
              /\ k < i => more[k] = list[k]
              /\ k = i => more[k] = new
              /\ k > i => more[k] = list[k - 1]
    BY InsertProperties
  <1> HIDE DEF more
  <1>2. Len(list) \in Nat /\ DOMAIN list = 1..Len(list) /\ i \in Int
    OBVIOUS
  <1>3. \A k \in DOMAIN more :
           more[k] = new \/ \E l \in DOMAIN list : more[k] = list[l]
    <2> SUFFICES ASSUME NEW k \in 1..(Len(list) + 1)
                 PROVE  more[k] = new \/ \E l \in DOMAIN list : more[k] = list[l]
      BY <1>1
    <2>1. CASE k < i
      <3>1. k \in DOMAIN list
        BY <1>2, <2>1
      <3> QED BY <1>1, <2>1, <3>1
    <2>2. CASE k > i
      <3>1. k - 1 \in DOMAIN list
        BY <1>2, <2>2
      <3> QED BY <1>1, <2>2, <3>1
    <2> QED BY <1>1, <1>2, <2>1, <2>2
  <1>4. \A l \in DOMAIN list : \E k \in DOMAIN more : more[k] = list[l]
    <2> SUFFICES ASSUME NEW l \in DOMAIN list PROVE \E k \in DOMAIN more : more[k] = list[l]
      OBVIOUS
    <2>1. CASE l < i
      BY <1>1, <1>2, <2>1
    <2>2. CASE ~(l < i)
      <3>1. l + 1 \in 1..(Len(list) + 1) /\ l + 1 > i /\ (l + 1) - 1 = l
        BY <1>2, <2>2
      <3> QED BY <1>1, <3>1
    <2> QED BY <2>1, <2>2
  <1>5. i \in DOMAIN more /\ more[i] = new
    BY <1>1, <1>2
  <1>6. ASSUME NEW id
        PROVE  id \in AllOf(more) <=> id \in new.covers \/ id \in AllOf(list)
    <2>1. /\ id \in AllOf(more) <=> \E k \in DOMAIN more : id \in more[k].covers
          /\ id \in AllOf(list) <=> \E l \in DOMAIN list : id \in list[l].covers
      BY InTogether DEF AllOf
    <2> QED BY <1>3, <1>4, <1>5, <2>1
  <1> QED BY <1>6 DEF more

\* The summary stands for all that the statements stood for which it replaces.
LEMMA AllOfCompressed ==
    ASSUME StatementInv, NEW target \in SUBSET DOMAIN m_statements, target # {},
           m_statement_sequence < MaxSequence
    PROVE  AllOf(Compressed(m_statement_sequence, target)) = AllOf(m_statements)
  <1> DEFINE first == CHOOSE i \in target : \A j \in target : i =< j
             P == DOMAIN m_statements \ target
             rest == Without(target)
             new == Summary(m_statement_sequence, target)
  <1>1. /\ m_statements \in Seq(Statement) /\ m_statement_sequence \in IDs
        /\ DOMAIN m_statements = 1..Len(m_statements) /\ Len(m_statements) \in Nat
    BY DEF StatementInv, TypeOK
  <1>2. rest = Selected(m_statements, P)
    BY DEF Without
  <1>3. /\ rest \in Seq(Statement) /\ Len(rest) = Cardinality(P)
        /\ Ordered(P) \in [DOMAIN rest -> P] /\ DOMAIN rest = 1..Len(rest)
    BY <1>1, <1>2, SelectedProperties
  <1>4. first \in target /\ \A j \in target : first =< j
    <2>1. target \in SUBSET Nat
      BY <1>1
    <2> HIDE DEF first
    <2> QED BY <2>1, LeastChosen DEF first
  <1>5. first \in 1..(Len(rest) + 1)
    <2> HIDE DEF first, rest
    <2>1. first \in 1..Len(m_statements) /\ first \notin P /\ P \in SUBSET (1..Len(m_statements))
      BY <1>1, <1>4
    <2>2. \A j \in 1..Len(m_statements) : j < first => j \in P
      BY <1>1, <1>4, <2>1
    <2> HIDE DEF P
    <2>3. first =< Cardinality(P) + 1
      BY <1>1, <2>1, <2>2, PlacesBefore
    <2> QED BY <1>3, <2>1, <2>3
  <1>6. new \in Statement /\ new.covers = Covered(target)
    <2>1. \A i \in target : m_statements[i].covers \in SUBSET IDs
      BY <1>1, StatementTypes
    <2> QED BY <1>1, <2>1 DEF Summary, Covered, Statement, Types
  <1>7. Compressed(m_statement_sequence, target) = InsertAt(rest, first, new)
    BY DEF Compressed
  <1>8. AllOf(rest) = Together(m_statements, P)
    BY <1>1, <1>2, AllOfSelected
  <1>9. Covered(target) = Together(m_statements, target)
    BY DEF Covered, Together
  <1>10. AllOf(m_statements) = Together(m_statements, P) \cup Together(m_statements, target)
    <2>1. DOMAIN m_statements = P \cup target
      OBVIOUS
    <2> HIDE DEF P
    <2> QED BY <2>1, TogetherSplit DEF AllOf
  <1> HIDE DEF first, rest, new, P
  <1>11. AllOf(InsertAt(rest, first, new)) = AllOf(rest) \cup new.covers
    BY <1>3, <1>5, <1>6, AllOfInserted
  <1> QED BY <1>6, <1>7, <1>8, <1>9, <1>10, <1>11

\* The statements that a command names are there.
LEMMA TargetsAreThere ==
    ASSUME TypeOK, NEW c \in Commands
    PROVE  Target(c) \in SUBSET DOMAIN m_statements
  <1> DEFINE at(id) == {i \in 1..Len(m_statements) : m_statements[i].id = id}
  <1>1. DOMAIN m_statements = 1..Len(m_statements) /\ Len(m_statements) \in Nat
    BY DEF TypeOK
  <1>2. ASSUME NEW id, FindStatementByID(id) # 0
        PROVE  FindStatementByID(id) \in DOMAIN m_statements
    <2>1. FindStatementByID(id) = IF at(id) # {} THEN CHOOSE x \in at(id) : \A y \in at(id) : x =< y ELSE 0
      BY DEF FindStatementByID, SelectInSeq, Min
    <2>2. at(id) \in SUBSET Nat /\ at(id) \in SUBSET DOMAIN m_statements
      BY <1>1
    <2> HIDE DEF at
    <2> QED BY <1>2, <2>1, <2>2, LeastChosen
  <1>3. CASE IsList(c)
    BY <1>2, <1>3 DEF Target, FindStatements
  <1>4. CASE ~IsList(c)
    <2>1. CASE FindStatementByID(c.start_id) = 0 \/ FindStatementByID(c.end_id) = 0
      BY <1>4, <2>1 DEF Target, FindStatementRange
    <2>2. CASE ~(FindStatementByID(c.start_id) = 0 \/ FindStatementByID(c.end_id) = 0)
      <3>1. /\ FindStatementByID(c.start_id) \in DOMAIN m_statements
            /\ FindStatementByID(c.end_id) \in DOMAIN m_statements
        BY <1>2, <2>2
      <3>2. Target(c) = FindStatementByID(c.start_id)..FindStatementByID(c.end_id)
        BY <1>4, <2>2 DEF Target, FindStatementRange
      <3> QED BY <1>1, <3>1, <3>2
    <2> QED BY <2>1, <2>2
  <1> QED BY <1>3, <1>4

-----------------------------------------------------------------------------
(* The invariant *)

\* The invariant holds before anything is said.
LEMMA StatementInit == Init => StatementInv
  <1> SUFFICES ASSUME Init PROVE StatementInv
    OBVIOUS
  <1>1. TypeOK
    <2>1. 0 \in IDs /\ 0 \in 0..MaxRounds
      BY MemoryAssumption DEF IDs
    <2>2. <<>> \in Seq(Statement) /\ <<>> \in Seq(Commands)
      OBVIOUS
    <2> QED BY <2>1, <2>2 DEF Init, TypeOK
  <1>2. IdsLeft
    BY DEF Init, IdsLeft
  <1>3. Kept(m_statements, deleted, m_statement_sequence)
    BY DEF Init, Kept
  <1>4. said = deleted \cup AllOf(m_statements)
    BY DEF Init, AllOf, Together
  <1> QED BY <1>1, <1>2, <1>3, <1>4 DEF Init, StatementInv

\* One command, whatever it names, leaves statements that stand for all that was
\* said and not deleted.
LEMMA ApplyStep ==
    ASSUME StatementInv, NEW c \in Commands, Apply(c), m_statement_sequence + 2 =< MaxSequence
    PROVE  /\ Kept(m_statements', deleted', m_statement_sequence')
           /\ m_statement_sequence' \in IDs /\ m_statement_sequence' =< m_statement_sequence + 2
           /\ deleted' \subseteq IDs /\ \A id \in deleted' : id < m_statement_sequence'
           /\ said' \subseteq IDs /\ said' = deleted' \cup AllOf(m_statements')
  <1> DEFINE target == Target(c)
             id == m_statement_sequence
             list == IF target = {} THEN m_statements
                     ELSE IF c.action = "delete" THEN Without(target) ELSE Compressed(id, target)
             made == target # {} /\ c.action = "compress"
             report == IF made THEN id + 1 ELSE id
             type == IF target # {} THEN "TOOL_REPORT" ELSE "TOOL_ERROR"
  <1>1. target \in SUBSET DOMAIN m_statements
    BY TargetsAreThere DEF StatementInv
  <1>2. c.action \in {"compress", "delete"}
    BY DEF Commands
  <1>3. id \in Nat /\ id \in IDs /\ deleted \subseteq IDs /\ (\A old \in deleted : old < id)
        /\ Kept(m_statements, deleted, id)
    BY MemoryAssumption DEF StatementInv, TypeOK, IDs
  <1>4. /\ m_statements' = Append(list, Said(report, type))
        /\ m_statement_sequence' = report + 1
        /\ said' = said \cup {report}
        /\ deleted' = IF c.action = "delete" THEN deleted \cup Covered(target) ELSE deleted
    BY DEF Apply, Report
  <1>5. \A i \in target : /\ m_statements[i].covers \subseteq IDs
                          /\ \A old \in m_statements[i].covers : old < id
    <2> SUFFICES ASSUME NEW i \in target
                 PROVE  /\ m_statements[i].covers \subseteq IDs
                        /\ \A old \in m_statements[i].covers : old < id
      OBVIOUS
    <2>1. m_statements[i] \in Statement /\ Sound(m_statements[i], deleted, id)
      BY <1>1, <1>3 DEF Kept
    <2> QED BY <1>3, <2>1, StatementTypes, CoversAreOld
  <1>6. Covered(target) \subseteq IDs /\ \A old \in Covered(target) : old < id
    BY <1>5 DEF Covered
  <1> HIDE DEF target
  <1>7. /\ deleted' \subseteq IDs /\ \A old \in deleted' : old < id
    BY <1>3, <1>4, <1>6
  <1>8. Kept(list, deleted', report)
    <2>1. CASE target = {}
      <3>1. deleted' = deleted
        <4>1. Covered({}) = {}
          BY DEF Covered
        <4> QED BY <1>4, <2>1, <4>1
      <3> QED BY <1>3, <2>1, <3>1
    <2>2. CASE target # {} /\ c.action = "delete"
      <3>1. \A i \in DOMAIN m_statements \ target : m_statements[i].covers \cap deleted' = {}
        <4> SUFFICES ASSUME NEW i \in DOMAIN m_statements \ target
                     PROVE  m_statements[i].covers \cap deleted' = {}
          OBVIOUS
        <4>1. m_statements[i].covers \cap deleted = {}
          BY <1>3 DEF Kept, Sound
        <4>2. \A j \in target : m_statements[i].covers \cap m_statements[j].covers = {}
          BY <1>1, <1>3 DEF Kept
        <4>3. m_statements[i].covers \cap Covered(target) = {}
          BY <4>2 DEF Covered
        <4> QED BY <1>4, <2>2, <4>1, <4>3
      <3>2. DOMAIN m_statements \ target \in SUBSET DOMAIN m_statements
        OBVIOUS
      <3>3. Kept(Without(target), deleted', id)
        BY <1>3, <3>1, <3>2, KeptSelected DEF Without
      <3> QED BY <2>2, <3>3
    <2>3. CASE target # {} /\ c.action = "compress"
      <3>1. m_statement_sequence < MaxSequence
        BY <1>3, MemoryAssumption
      <3>2. Kept(Compressed(id, target), deleted, id + 1)
        BY <1>1, <2>3, <3>1, KeptCompressed
      <3> QED BY <1>4, <2>3, <3>2
    <2> QED BY <1>2, <2>1, <2>2, <2>3
  <1>9. /\ report \in IDs /\ report \in Nat /\ report + 1 \in IDs /\ id =< report
        /\ report + 1 =< id + 2 /\ \A old \in deleted' : old < report /\ old < report + 1
    <2>1. \A old \in deleted' : old \in Nat
      BY <1>7, MemoryAssumption DEF IDs
    <2> QED BY <1>3, <1>7, <2>1, MemoryAssumption DEF IDs
  <1>10. type \in Types \ {"SUMMARY"}
    BY DEF Types
  <1> HIDE DEF list, report, type
  <1>11. report =< report
    BY <1>9
  <1>12. Kept(Append(list, Said(report, type)), deleted', report + 1)
    BY <1>7, <1>8, <1>9, <1>10, <1>11, KeptSaid
  <1>13. deleted' \cup AllOf(list) = deleted \cup AllOf(m_statements)
    <2>1. CASE target = {}
      <3>1. Covered({}) = {}
        BY DEF Covered
      <3> QED BY <1>4, <2>1, <3>1 DEF list
    <2>2. CASE target # {} /\ c.action = "delete"
      <3> DEFINE P == DOMAIN m_statements \ target
      <3>1. list = Selected(m_statements, P) /\ P \in SUBSET DOMAIN m_statements
        BY <2>2 DEF list, Without
      <3>2. DOMAIN m_statements = P \cup target
        BY <1>1
      <3>3. Covered(target) = Together(m_statements, target)
        BY DEF Covered, Together
      <3> HIDE DEF P
      <3>4. AllOf(list) = Together(m_statements, P)
        BY <1>3, <3>1, AllOfSelected DEF Kept
      <3>5. AllOf(m_statements) = Together(m_statements, P) \cup Together(m_statements, target)
        BY <3>2, TogetherSplit DEF AllOf
      <3> QED BY <1>4, <2>2, <3>3, <3>4, <3>5
    <2>3. CASE target # {} /\ c.action = "compress"
      <3>1. m_statement_sequence < MaxSequence
        BY <1>3, MemoryAssumption
      <3>2. AllOf(list) = AllOf(m_statements)
        BY <1>1, <2>3, <3>1, AllOfCompressed DEF list
      <3> QED BY <1>4, <2>3, <3>2
    <2> QED BY <1>2, <2>1, <2>2, <2>3
  <1>14. AllOf(Append(list, Said(report, type))) = AllOf(list) \cup {report}
    BY <1>8, AllOfSaid DEF Kept
  <1>15. said' \subseteq IDs /\ said' = deleted' \cup AllOf(m_statements')
    <2>1. said \subseteq IDs /\ said = deleted \cup AllOf(m_statements)
      BY DEF StatementInv, TypeOK
    <2> QED BY <1>4, <1>9, <1>13, <1>14, <2>1
  <1> QED BY <1>4, <1>7, <1>9, <1>12, <1>15

\* The ids suffice for the n - 1 exchanges after the next one, with two ids each.
LEMMA IdsArithmetic ==
    ASSUME NEW id \in Nat, NEW next \in Nat, NEW n \in Nat, n > 0, NEW last \in Nat,
           id + 2 * n + 2 =< last, next =< id + 2
    PROVE  next + 2 * (n - 1) + 2 =< last /\ next + 2 =< last
  OBVIOUS

\* Every operation on the statements keeps the invariant.
LEMMA StatementStep == StatementInv /\ [Next]_vars => StatementInv'
  <1> SUFFICES ASSUME StatementInv, [Next]_vars PROVE StatementInv'
    OBVIOUS
  <1>1. m_statement_sequence \in Nat /\ round \in Nat /\ Len(commands) \in Nat /\ commands \in Seq(Commands)
    BY MemoryAssumption DEF StatementInv, TypeOK, IDs
  <1>2. CASE Generate
    BY <1>2, MemoryAssumption DEF Generate, StatementInv, TypeOK, IdsLeft
  <1>3. ASSUME NEW n \in 0..MaxCommands, Room(n), NEW cs \in [1..n -> Named], GenerateInternal(cs)
        PROVE  StatementInv'
    <2>1. cs \in Seq(Commands) /\ Len(cs) = n /\ n \in Nat
      BY <1>3, MemoryAssumption DEF Named
    <2>2. cs = <<>> <=> n = 0
      BY <2>1
    <2>3. UNCHANGED <<m_statements, m_statement_sequence, round, said, deleted>> /\ pc = "generating"
          /\ continue' \in BOOLEAN
      BY <1>3 DEF GenerateInternal
    <2>4. CASE ~PatternsCompile
      <3>1. pc' = "terminated" /\ commands' = <<>>
        BY <1>3, <2>4 DEF GenerateInternal
      <3> QED BY <2>3, <3>1 DEF StatementInv, TypeOK, IdsLeft
    <2>5. CASE PatternsCompile /\ n = 0
      <3>1. pc' = "recording" /\ commands' = cs /\ cs = <<>>
        BY <1>3, <2>2, <2>5, MemoryAssumption DEF GenerateInternal
      <3> QED BY <2>1, <2>3, <3>1 DEF StatementInv, TypeOK, IdsLeft
    <2>6. CASE PatternsCompile /\ n # 0
      <3>1. pc' = "executing" /\ commands' = cs /\ cs # <<>>
        BY <1>3, <2>2, <2>6, MemoryAssumption DEF GenerateInternal
      <3>2. m_statement_sequence + 2 * Len(cs) + 2 =< MaxSequence
        BY <1>3, <2>1 DEF Room
      <3> QED BY <2>1, <2>3, <3>1, <3>2 DEF StatementInv, TypeOK, IdsLeft
    <2> QED BY <2>4, <2>5, <2>6, MemoryAssumption
  <1>4. CASE ExecuteCommand
    <2> DEFINE c == Head(commands)
               rest == Tail(commands)
    <2>1. pc = "executing" /\ commands # <<>> /\ Len(commands) > 0 /\ Apply(c)
      BY <1>1, <1>4 DEF ExecuteCommand, StatementInv, TypeOK
    <2>2. c \in Commands /\ rest \in Seq(Commands) /\ Len(rest) = Len(commands) - 1
      BY <1>1, <2>1
    <2>3. m_statement_sequence + 2 * Len(commands) + 2 =< MaxSequence /\ round < MaxRounds
      BY <2>1 DEF StatementInv, IdsLeft
    <2>4. m_statement_sequence + 2 =< MaxSequence
      BY <1>1, <2>1, <2>3, MemoryAssumption
    <2> HIDE DEF c, rest
    <2>5. /\ Kept(m_statements', deleted', m_statement_sequence')
          /\ m_statement_sequence' \in IDs /\ m_statement_sequence' =< m_statement_sequence + 2
          /\ deleted' \subseteq IDs /\ \A id \in deleted' : id < m_statement_sequence'
          /\ said' \subseteq IDs /\ said' = deleted' \cup AllOf(m_statements')
      BY <2>1, <2>2, <2>4, ApplyStep
    <2>6. commands' = rest /\ continue' = continue
      BY <1>4 DEF ExecuteCommand, rest
    <2>7. m_statement_sequence' \in Nat
      BY <2>5, MemoryAssumption DEF IDs
    <2>8. m_statement_sequence' + 2 * Len(rest) + 2 =< MaxSequence
          /\ m_statement_sequence' + 2 =< MaxSequence
      <3>1. Len(rest) = Len(commands) - 1 /\ m_statement_sequence' =< m_statement_sequence + 2
        BY <2>2, <2>5
      <3> QED BY <1>1, <2>1, <2>3, <2>7, <3>1, IdsArithmetic, MemoryAssumption
    <2>9. CASE rest # <<>>
      <3>1. pc' = "executing" /\ round' = round
        BY <1>4, <2>1, <2>9 DEF ExecuteCommand, rest
      <3> QED BY <2>2, <2>3, <2>5, <2>6, <2>8, <2>9, <3>1 DEF StatementInv, TypeOK, IdsLeft, Kept
    <2>10. CASE rest = <<>>
      <3>1. round' = round + 1 /\ pc' = IF Repeat THEN "generating" ELSE "recording"
        BY <1>4, <2>10 DEF ExecuteCommand, rest
      <3>2. round' \in 0..MaxRounds
        BY <1>1, <2>3, <3>1, MemoryAssumption
      <3>3. (pc' = "generating" /\ round' < MaxRounds) \/ pc' = "recording"
        BY <3>1 DEF Repeat
      <3> QED BY <2>2, <2>5, <2>6, <2>8, <2>10, <3>2, <3>3 DEF StatementInv, TypeOK, IdsLeft, Kept
    <2> QED BY <2>9, <2>10
  <1>5. CASE Record
    <2> DEFINE id == m_statement_sequence
               one == Append(m_statements, Said(id, "USER"))
    <2>1. /\ pc = "recording" /\ pc' = "idle" /\ id + 2 =< MaxSequence
          /\ UNCHANGED <<round, commands, continue, deleted>> /\ m_statement_sequence' = id + 2
      BY <1>5 DEF Record, StatementInv, IdsLeft
    <2>2. m_statements \in Seq(Statement)
      BY DEF StatementInv, TypeOK
    <2>3. m_statements' = Append(one, Said(id + 1, "ASSISTANT"))
      <3>1. m_statements' = m_statements \o <<Said(id, "USER"), Said(id + 1, "ASSISTANT")>>
        BY <1>5 DEF Record
      <3> DEFINE a == Said(id, "USER")
                 b == Said(id + 1, "ASSISTANT")
      <3>2. /\ a \in {a, b} \cup Statement /\ b \in {a, b} \cup Statement
            /\ m_statements \in Seq({a, b} \cup Statement)
        BY <2>2
      <3> HIDE DEF a, b
      <3>3. m_statements \o <<a, b>> = Append(Append(m_statements, a), b)
        BY <3>2
      <3> QED BY <3>1, <3>3 DEF a, b
    <2>4. /\ id \in IDs /\ id + 1 \in IDs /\ id + 2 \in IDs /\ id \in Nat /\ id + 1 \in Nat
          /\ id =< id /\ id + 1 =< id + 1 /\ (id + 1) + 1 = id + 2
      BY <1>1, <2>1, MemoryAssumption DEF IDs
    <2>5. /\ deleted \subseteq IDs
          /\ \A old \in deleted : old < id /\ old < id + 1 /\ old < id + 2
      <3>1. deleted \subseteq IDs /\ \A old \in deleted : old < id /\ old \in Nat
        BY MemoryAssumption DEF StatementInv, TypeOK, IDs
      <3> QED BY <2>4, <3>1
    <2>6. "USER" \in Types \ {"SUMMARY"} /\ "ASSISTANT" \in Types \ {"SUMMARY"}
      BY DEF Types
    <2>7. Kept(m_statements, deleted, id)
      BY DEF StatementInv
    <2> HIDE DEF id, one
    <2>8. Kept(one, deleted, id + 1)
      BY <2>4, <2>5, <2>6, <2>7, KeptSaid DEF one
    <2>9. Kept(m_statements', deleted, (id + 1) + 1)
      BY <2>3, <2>4, <2>5, <2>6, <2>8, KeptSaid
    <2>10. Kept(m_statements', deleted', m_statement_sequence')
      BY <2>1, <2>4, <2>9
    <2>11. said' \subseteq IDs /\ said' = deleted' \cup AllOf(m_statements')
      <3>1. said' = said \cup {id, id + 1}
        BY <1>5 DEF Record, id
      <3>2. said \subseteq IDs /\ said = deleted \cup AllOf(m_statements)
        BY DEF StatementInv, TypeOK
      <3>3. AllOf(one) = AllOf(m_statements) \cup {id}
        BY <2>2, AllOfSaid DEF one
      <3>4. AllOf(m_statements') = AllOf(one) \cup {id + 1}
        BY <2>3, <2>8, AllOfSaid DEF Kept
      <3> QED BY <2>1, <2>4, <3>1, <3>2, <3>3, <3>4
    <2> QED BY <2>1, <2>4, <2>5, <2>10, <2>11 DEF StatementInv, TypeOK, IdsLeft, Kept
  <1>6. CASE ThrowOutOfRange
    <2>1. /\ pc' = "terminated" /\ commands' = <<>>
          /\ UNCHANGED <<m_statements, m_statement_sequence, round, continue, said, deleted>>
      BY <1>6 DEF ThrowOutOfRange
    <2> QED BY <2>1 DEF StatementInv, TypeOK, IdsLeft
  <1>7. CASE UNCHANGED vars
    BY <1>7 DEF vars, StatementInv, TypeOK, IdsLeft
  <1> QED BY <1>2, <1>3, <1>4, <1>5, <1>6, <1>7 DEF Next

-----------------------------------------------------------------------------
(* Theorems *)

\* The statements keep StatementInv, whatever commands the model gives, in any
\* rounds, for as long as there are ids.
THEOREM StatementsWellKept == Spec => []StatementInv
  <1> QED BY StatementInit, StatementStep, PTL DEF Spec

\* Commands that fail, overlap, name summaries or guess ids lose nothing that
\* became a statement: each is there, or within one summary, or was deleted by a
\* command; they double nothing, and give no id twice.
THEOREM NothingIsLost == Spec => []Accounted
  <1>1. StatementInv => Accounted
    <2>1. AllOf(m_statements) = Covered(DOMAIN m_statements)
      BY DEF AllOf, Together, Covered
    <2> QED BY <2>1 DEF StatementInv, Kept, Sound, Accounted
  <1> QED BY <1>1, StatementsWellKept, PTL

\* ApplyCompressCommand and ApplyCompressIDs put a summary where what it stands
\* for began, and the statements stay in order.
THEOREM OrderIsKept == Spec => []Chronological
  <1>1. StatementInv => Chronological
    BY DEF StatementInv, Kept, Chronological
  <1> QED BY <1>1, StatementsWellKept, PTL

-----------------------------------------------------------------------------
(* The identity, the session summary and their files: AgentMemory *)

MemorySpec == MemoryInit /\ [][MemoryNext]_memoryVars

\* What is in the files at each stage of a save.
OnDisk ==
    /\ saving = "no" =>
          identity_txt \in {m_identity, Absent} /\ session_txt \in {m_session_summary, Absent}
    /\ saving \in {"no", "identity"} => Content(identity_txt) = saved.identity
    /\ saving # "session_open" => Content(session_txt) = saved.session
    /\ saving \in {"session", "session_open"} => identity_txt = m_identity

TextsInv ==
    /\ MemoryTypeOK
    /\ saving # "no" => up /\ m_initialized
    /\ up /\ m_initialized => OnDisk

-----------------------------------------------------------------------------
(* Lemmas about texts *)

Symbol == Words \cup {NL}

\* A text is a sequence of at most MaxText words and ends of lines.
LEMMA TextsAreBounded ==
    ASSUME NEW text
    PROVE  text \in Texts <=> text \in Seq(Symbol) /\ Len(text) =< MaxText
  <1>1. ASSUME text \in Texts
        PROVE  text \in Seq(Symbol) /\ Len(text) =< MaxText
    <2>1. PICK k \in 0..MaxText : text \in [1..k -> Words \cup {NL}]
      BY <1>1 DEF Texts
    <2> QED BY <2>1, AgentMemoryAssumption DEF Symbol
  <1>2. ASSUME text \in Seq(Symbol), Len(text) =< MaxText
        PROVE  text \in Texts
    <2>1. Len(text) \in 0..MaxText /\ text \in [1..Len(text) -> Words \cup {NL}]
      BY <1>2, AgentMemoryAssumption DEF Symbol
    <2> QED BY <2>1 DEF Texts
  <1> QED BY <1>1, <1>2

\* A text is never taken for a file that is not there.
LEMMA TextsAreThere == Absent \notin Texts
  BY TextsAreBounded, AgentMemoryAssumption DEF Symbol

\* The texts of a line, and none at all.
LEMMA ShortTexts ==
    /\ <<>> \in Texts /\ Contents \subseteq Texts
    /\ \A c \in Contents : c \in Seq(Symbol) /\ Len(c) = 1
  <1>1. <<>> \in Texts
    <2>1. <<>> \in Seq(Symbol) /\ Len(<<>>) = 0 /\ 0 =< MaxText
      BY AgentMemoryAssumption
    <2> QED BY <2>1, TextsAreBounded
  <1>2. ASSUME NEW w \in Words
        PROVE  <<w>> \in Seq(Symbol) /\ Len(<<w>>) = 1
    BY DEF Symbol
  <1>3. \A c \in Contents : c \in Seq(Symbol) /\ Len(c) = 1
    BY <1>2 DEF Contents
  <1>4. 1 =< MaxText
    BY AgentMemoryAssumption
  <1>5. \A c \in Contents : c \in Texts
    BY <1>3, <1>4, TextsAreBounded
  <1> QED BY <1>1, <1>3, <1>5

\* The function by which FlattenSeq is defined.
IsJoin(f, s) ==
    /\ DOMAIN f = 1..Len(s)
    /\ \A i \in 1..Len(s) : f[i] = IF i = 1 THEN s[i] ELSE f[i - 1] \o s[i]

\* That function exists.
LEMMA JoinExists ==
    ASSUME NEW T, NEW s \in Seq(Seq(T))
    PROVE  \E f : /\ IsJoin(f, s)
                  /\ FlattenSeq(s) = IF Len(s) = 0 THEN s ELSE f[Len(s)]
                  /\ \A i \in 1..Len(s) : f[i] \in Seq(T)
  <1> DEFINE n == Len(s)
             Joins(f, k) == f = [i \in 1..k |-> IF i = 1 THEN s[i] ELSE f[i - 1] \o s[i]]
             flatten == CHOOSE f : Joins(f, n)
             Missing == {k \in Nat : k =< n /\ \A f : ~Joins(f, k)}
  <1>1. n \in Nat /\ \A i \in 1..n : s[i] \in Seq(T)
    OBVIOUS
  <1> HIDE DEF n
  <1>2. Missing = {}
    <2> SUFFICES ASSUME Missing # {} PROVE FALSE
      OBVIOUS
    <2>1. PICK k \in Missing : \A m \in Missing : k =< m
      BY LeastNumber
    <2>2. k \in Nat /\ k =< n /\ \A f : ~Joins(f, k)
      BY <2>1
    <2>3. CASE k = 0
      <3>1. Joins(<<>>, 0)
        OBVIOUS
      <3> QED BY <2>2, <2>3, <3>1
    <2>4. CASE k # 0
      <3>1. k - 1 \in Nat /\ k - 1 < k /\ k - 1 =< n
        BY <1>1, <2>2, <2>4
      <3>2. k - 1 \notin Missing
        <4> HIDE DEF Missing
        <4> QED BY <2>1, <2>2, <3>1
      <3>3. PICK f : Joins(f, k - 1)
        <4> HIDE DEF Joins
        <4> QED BY <3>1, <3>2
      <3> DEFINE g == [i \in 1..k |-> IF i < k THEN f[i]
                                      ELSE IF i = 1 THEN s[i] ELSE f[i - 1] \o s[i]]
      <3>4. DOMAIN f = 1..(k - 1)
            /\ \A i \in 1..(k - 1) : f[i] = IF i = 1 THEN s[i] ELSE f[i - 1] \o s[i]
        BY <3>3
      <3>5. \A i \in 1..k : g[i] = IF i = 1 THEN s[i] ELSE g[i - 1] \o s[i]
        <4> SUFFICES ASSUME NEW i \in 1..k
                     PROVE  g[i] = IF i = 1 THEN s[i] ELSE g[i - 1] \o s[i]
          OBVIOUS
        <4>1. CASE i = 1
          <5>1. CASE 1 < k
            <6>1. 1 \in 1..(k - 1)
              BY <2>2, <5>1
            <6>2. f[1] = s[1]
              BY <3>4, <6>1
            <6> QED BY <4>1, <5>1, <6>2
          <5>2. CASE ~(1 < k)
            BY <4>1, <5>2
          <5> QED BY <5>1, <5>2
        <4>2. CASE i # 1
          <5>1. i - 1 \in 1..(k - 1) /\ i - 1 \in 1..k /\ i - 1 < k
            BY <2>2, <4>2
          <5>2. g[i - 1] = f[i - 1]
            BY <5>1
          <5>3. g[i] = f[i - 1] \o s[i]
            <6>1. CASE i < k
              <7>1. i \in 1..(k - 1)
                BY <2>2, <6>1
              <7> QED BY <3>4, <4>2, <6>1, <7>1
            <6>2. CASE ~(i < k)
              BY <4>2, <6>2
            <6> QED BY <6>1, <6>2
          <5> QED BY <4>2, <5>2, <5>3
        <4> QED BY <4>1, <4>2
      <3>6. Joins(g, k)
        BY <3>5, Zenon
      <3> QED BY <2>2, <3>6
    <2> QED BY <2>3, <2>4
  <1>3. \E f : Joins(f, n)
    <2>1. n \notin Missing
      BY <1>2
    <2>2. n \in Nat /\ n =< n
      BY <1>1
    <2> HIDE DEF Joins
    <2> QED BY <2>1, <2>2
  <1>4. Joins(flatten, n)
    BY <1>3, Zenon
  <1>5. /\ DOMAIN flatten = 1..n
        /\ \A i \in 1..n : flatten[i] = IF i = 1 THEN s[i] ELSE flatten[i - 1] \o s[i]
    BY <1>4
  <1>6. FlattenSeq(s) = IF n = 0 THEN s ELSE flatten[n]
    BY DEF FlattenSeq, n
  <1> HIDE DEF flatten
  <1> DEFINE Bad == {i \in Nat : i \in 1..n /\ flatten[i] \notin Seq(T)}
  <1>7. Bad = {}
    <2> SUFFICES ASSUME Bad # {} PROVE FALSE
      OBVIOUS
    <2>1. PICK k \in Bad : \A m \in Bad : k =< m
      BY LeastNumber
    <2>2. k \in Nat /\ k \in 1..n /\ flatten[k] \notin Seq(T)
      BY <2>1
    <2>3. CASE k = 1
      BY <1>1, <1>5, <2>2, <2>3
    <2>4. CASE k # 1
      <3>1. k - 1 \in 1..n /\ k - 1 \in Nat /\ k - 1 < k
        BY <1>1, <2>2, <2>4
      <3>2. flatten[k - 1] \in Seq(T)
        BY <2>1, <2>2, <3>1
      <3>3. flatten[k] = flatten[k - 1] \o s[k] /\ s[k] \in Seq(T)
        BY <1>1, <1>5, <2>2, <2>4
      <3> QED BY <2>2, <3>2, <3>3
    <2> QED BY <2>3, <2>4
  <1>8. \A i \in 1..n : flatten[i] \in Seq(T)
    BY <1>1, <1>7
  <1>9. IsJoin(flatten, s)
    BY <1>5 DEF IsJoin, n
  <1> QED BY <1>6, <1>8, <1>9 DEF n

\* FlattenSeq joins sequences to one that has all they have.
LEMMA FlattenSeqProperties ==
    ASSUME NEW T, NEW s \in Seq(Seq(T))
    PROVE  /\ FlattenSeq(s) \in Seq(T)
           /\ \A i \in DOMAIN s : \A x \in T : Contains(s[i], x) => Contains(FlattenSeq(s), x)
  <1> DEFINE n == Len(s)
  <1>1. n \in Nat /\ \A i \in 1..n : s[i] \in Seq(T)
    OBVIOUS
  <1>2. PICK flatten : /\ IsJoin(flatten, s)
                       /\ FlattenSeq(s) = IF Len(s) = 0 THEN s ELSE flatten[Len(s)]
                       /\ \A i \in 1..Len(s) : flatten[i] \in Seq(T)
    BY JoinExists
  <1>5. \A i \in 1..n : flatten[i] = IF i = 1 THEN s[i] ELSE flatten[i - 1] \o s[i]
    BY <1>2 DEF IsJoin
  <1>6. FlattenSeq(s) = IF n = 0 THEN s ELSE flatten[n]
    BY <1>2
  <1>7. \A i \in 1..n : flatten[i] \in Seq(T)
    BY <1>2
  <1> HIDE DEF n
  <1>8. FlattenSeq(s) \in Seq(T)
    <2>1. CASE n = 0
      BY <1>6, <2>1 DEF n
    <2>2. CASE n # 0
      <3>1. n \in 1..n /\ FlattenSeq(s) = flatten[n]
        BY <1>1, <1>6, <2>2
      <3> QED BY <1>7, <3>1
    <2> QED BY <2>1, <2>2
  <1>10. ASSUME NEW i \in 1..n, NEW x \in T, Contains(s[i], x) PROVE Contains(flatten[n], x)
    <2> DEFINE Lacking == {k \in Nat : k \in i..n /\ ~Contains(flatten[k], x)}
    <2>1. \A a, b \in Seq(T) : Contains(a, x) \/ Contains(b, x) => Contains(a \o b, x)
      <3> SUFFICES ASSUME NEW a \in Seq(T), NEW b \in Seq(T), Contains(a, x) \/ Contains(b, x)
                   PROVE  Contains(a \o b, x)
        OBVIOUS
      <3>1. Len(a \o b) = Len(a) + Len(b) /\ Len(a) \in Nat /\ Len(b) \in Nat
        OBVIOUS
      <3>2. ASSUME NEW j \in 1..Len(a), a[j] = x PROVE Contains(a \o b, x)
        <4>1. j \in 1..Len(a \o b) /\ (a \o b)[j] = x
          BY <3>1, <3>2
        <4> QED BY <4>1 DEF Contains
      <3>3. ASSUME NEW j \in 1..Len(b), b[j] = x PROVE Contains(a \o b, x)
        <4>1. Len(a) + j \in 1..Len(a \o b) /\ (a \o b)[Len(a) + j] = x
          BY <3>1, <3>3
        <4> QED BY <4>1 DEF Contains
      <3> QED BY <3>2, <3>3 DEF Contains
    <2>2. \A k \in 1..n : flatten[k] \in Seq(T)
      BY <1>7
    <2>3. Lacking = {}
      <3> SUFFICES ASSUME Lacking # {} PROVE FALSE
        OBVIOUS
      <3>1. PICK k \in Lacking : \A m \in Lacking : k =< m
        BY LeastNumber
      <3>2. k \in Nat /\ k \in i..n /\ k \in 1..n /\ ~Contains(flatten[k], x)
        BY <1>1, <3>1
      <3>3. CASE k = i
        <4>1. CASE k = 1
          BY <1>5, <1>10, <3>2, <3>3, <4>1
        <4>2. CASE k # 1
          <5>1. k - 1 \in 1..n
            BY <1>1, <3>2, <4>2
          <5>2. flatten[k] = flatten[k - 1] \o s[k]
            BY <1>5, <3>2, <4>2
          <5> QED BY <1>1, <1>10, <2>1, <2>2, <3>2, <3>3, <5>1, <5>2
        <4> QED BY <4>1, <4>2
      <3>4. CASE k # i
        <4>1. k - 1 \in i..n /\ k - 1 \in 1..n /\ k - 1 \in Nat /\ k - 1 < k /\ k # 1
          BY <1>1, <3>2, <3>4
        <4>2. Contains(flatten[k - 1], x)
          <5>1. k - 1 \notin Lacking
            <6> HIDE DEF Lacking
            <6> QED BY <3>1, <3>2, <4>1
          <5> QED BY <4>1, <5>1
        <4>3. flatten[k] = flatten[k - 1] \o s[k]
          BY <1>5, <3>2, <4>1
        <4> QED BY <1>1, <2>1, <2>2, <3>2, <4>1, <4>2, <4>3
      <3> QED BY <3>3, <3>4
    <2>4. n \in Nat /\ n \in i..n
      BY <1>1
    <2> QED BY <2>3, <2>4
  <1>11. ASSUME NEW i \in DOMAIN s, NEW x \in T, Contains(s[i], x)
         PROVE  Contains(FlattenSeq(s), x)
    <2>1. DOMAIN s = 1..n
      BY DEF n
    <2>2. i \in 1..n /\ n # 0
      BY <1>1, <2>1
    <2> QED BY <1>6, <1>10, <1>11, <2>2
  <1> QED BY <1>8, <1>11, Zenon

\* The ends of the lines of a text are positions in it.
LEMMA LineEndsType ==
    ASSUME NEW text \in Seq(Symbol)
    PROVE  /\ Len(text) \in Nat /\ DOMAIN text = 1..Len(text)
           /\ LineEnds(text) \in SUBSET (1..Len(text))
           /\ Cardinality(LineEnds(text)) \in Nat
  <1>1. Len(text) \in Nat /\ DOMAIN text = 1..Len(text)
    OBVIOUS
  <1>2. LineEnds(text) \in SUBSET (1..Len(text))
    BY <1>1 DEF LineEnds
  <1> QED BY <1>1, <1>2, PositionsFinite

\* Its lines, as many as it has ends of lines, are sequences of words.
LEMMA LinesType ==
    ASSUME NEW text \in Seq(Symbol)
    PROVE  Lines(text) \in [1..Cardinality(LineEnds(text)) -> Seq(Symbol)]
  <1> DEFINE ends == Ordered(LineEnds(text))
             n == Cardinality(LineEnds(text))
             from(k) == IF k = 1 THEN 1 ELSE ends[k - 1] + 1
             last(k) == IF text[ends[k]] = NL THEN ends[k] - 1 ELSE ends[k]
  <1>1. /\ Len(text) \in Nat /\ DOMAIN text = 1..Len(text) /\ n \in Nat
        /\ LineEnds(text) \in SUBSET (1..Len(text))
    BY LineEndsType
  <1>2. ends \in [1..n -> LineEnds(text)] /\ DOMAIN ends = 1..n
    BY <1>1, OrderedProperties
  <1>3. Lines(text) = [k \in DOMAIN ends |-> SubSeq(text, from(k), last(k))]
    BY DEF Lines
  <1> HIDE DEF ends, n
  <1>4. ASSUME NEW k \in 1..n
        PROVE  SubSeq(text, from(k), last(k)) \in Seq(Symbol)
    <2>1. ends[k] \in 1..Len(text)
      BY <1>1, <1>2
    <2>2. from(k) \in Int /\ 1 =< from(k)
      <3>1. CASE k = 1
        BY <3>1
      <3>2. CASE k # 1
        <4>1. k - 1 \in 1..n
          BY <1>1, <3>2
        <4>2. ends[k - 1] \in 1..Len(text)
          BY <1>1, <1>2, <4>1
        <4> QED BY <3>2, <4>2
      <3> QED BY <3>1, <3>2
    <2>3. last(k) \in Int /\ last(k) =< Len(text)
      BY <1>1, <2>1
    <2> HIDE DEF from, last
    <2>4. \A i \in from(k)..last(k) : text[i] \in Symbol
      BY <1>1, <2>2, <2>3
    <2> QED BY <2>2, <2>3, <2>4, <1>1, SubSeqProperties
  <1> QED BY <1>2, <1>3, <1>4 DEF n

\* The sections are texts, and have their sizes.
LEMMA SectionsType ==
    ASSUME MemoryTypeOK, NEW s \in Sections
    PROVE  SectionText(s) \in Seq(Symbol) /\ Size(s) \in Nat
  <1>1. SectionText(s) \in Texts
    BY DEF MemoryTypeOK, Sections, SectionText
  <1>2. SectionText(s) \in Seq(Symbol)
    BY <1>1, TextsAreBounded
  <1> QED BY <1>2, LineEndsType DEF Size

\* A section with some of its lines replaced is a text.
LEMMA WithReplacedType ==
    ASSUME MemoryTypeOK, NEW s \in Sections, NEW m, NEW n,
           NEW r \in Words \cup {DELETE}
    PROVE  WithReplaced(s, m, n, r) \in Seq(Symbol)
  <1> DEFINE hit == Replaced(s, m, n)
             stay == IF r = DELETE THEN 1..Size(s) \ hit ELSE 1..Size(s)
             places == Ordered(stay)
             lines == [p \in DOMAIN places |->
                          IF places[p] \in hit THEN <<r>> ELSE Section(s)[places[p]]]
             joined == [i \in DOMAIN lines |-> IF i = 1 THEN lines[i] ELSE <<NL>> \o lines[i]]
  <1>1. SectionText(s) \in Seq(Symbol) /\ Size(s) \in Nat
    BY SectionsType
  <1>2. Section(s) \in [1..Size(s) -> Seq(Symbol)]
    BY <1>1, LinesType DEF Section, Size
  <1>3. WithReplaced(s, m, n, r) = FlattenSeq(joined)
    BY DEF WithReplaced, Rebuilt
  <1>4. stay \in SUBSET (1..Size(s)) /\ (r = DELETE => stay \cap hit = {})
    OBVIOUS
  <1> HIDE DEF stay, hit
  <1>5. Cardinality(stay) \in Nat /\ places \in [1..Cardinality(stay) -> stay]
    BY <1>1, <1>4, OrderedProperties
  <1> HIDE DEF places
  <1>6. ASSUME NEW p \in 1..Cardinality(stay)
        PROVE  lines[p] \in Seq(Symbol)
    <2>1. places[p] \in stay /\ places[p] \in 1..Size(s) /\ p \in DOMAIN places
      BY <1>4, <1>5
    <2>2. CASE places[p] \in hit
      <3>1. r \in Words
        BY <1>4, <2>1, <2>2
      <3>2. lines[p] = <<r>>
        BY <2>1, <2>2
      <3>3. <<r>> \in Seq(Symbol)
        BY <3>1 DEF Symbol
      <3> QED BY <3>2, <3>3
    <2>3. CASE places[p] \notin hit
      BY <1>2, <2>1, <2>3
    <2> QED BY <2>2, <2>3
  <1>7. DOMAIN lines = 1..Cardinality(stay)
    BY <1>5
  <1> HIDE DEF lines
  <1>8. joined \in Seq(Seq(Symbol))
    <2>1. \A i \in 1..Cardinality(stay) : (IF i = 1 THEN lines[i] ELSE <<NL>> \o lines[i]) \in Seq(Symbol)
      <3>1. <<NL>> \in Seq(Symbol)
        BY DEF Symbol
      <3> QED BY <1>6, <3>1
    <2>2. joined \in [1..Cardinality(stay) -> Seq(Symbol)]
      BY <1>7, <2>1
    <2> HIDE DEF joined
    <2> QED BY <1>5, <2>2
  <1> HIDE DEF joined
  <1> QED BY <1>3, <1>8, FlattenSeqProperties

\* A command changes a section or none.
LEMMA SoughtType ==
    ASSUME NEW m, NEW n
    PROVE  Sought(m, n) \in Sections \cup {"none"}
  BY DEF Sought, Sections

-----------------------------------------------------------------------------
(* Saving *)

\* The invariant holds of empty texts without files.
LEMMA TextsInit == MemoryInit => TextsInv
  <1> SUFFICES ASSUME MemoryInit PROVE TextsInv
    OBVIOUS
  <1>1. MemoryTypeOK
    BY ShortTexts DEF MemoryInit, MemoryTypeOK
  <1> QED BY <1>1 DEF MemoryInit, TextsInv

\* What starts a save, or does not, leaves the files and what was saved.
LEMMA EditsAreSaved ==
    ASSUME TextsInv, Ready, SaveToDisk,
           m_identity' \in Texts, m_session_summary' \in Texts, m_conversation' \in Texts,
           UNCHANGED <<disk, up, m_initialized, engine, saved>>,
           thread' \in {"free", "exiting"}
    PROVE  TextsInv'
  <1>1. MemoryTypeOK'
    BY DEF TextsInv, MemoryTypeOK, SaveToDisk, disk
  <1>2. m_initialized' => saving' = "identity"
    BY DEF SaveToDisk
  <1>3. (saving # "no" => up /\ m_initialized)'
    BY DEF TextsInv, MemoryTypeOK, SaveToDisk, Ready
  <1>4. (up /\ m_initialized => OnDisk)'
    BY <1>2 DEF TextsInv, OnDisk, Ready, disk, Content
  <1> QED BY <1>1, <1>3, <1>4 DEF TextsInv

\* Only the conversation, the archive, the engine or the thread changes.
LEMMA FilesStay ==
    ASSUME TextsInv, MemoryTypeOK',
           UNCHANGED <<identity_txt, session_txt, m_identity, m_session_summary,
                       up, m_initialized, saving, saved>>
    PROVE  TextsInv'
  BY DEF TextsInv, OnDisk, Content

\* Every step of the agent, its engine, its archive and its saves.
LEMMA TextsStep == TextsInv /\ [MemoryNext]_memoryVars => TextsInv'
  <1> SUFFICES ASSUME TextsInv, [MemoryNext]_memoryVars PROVE TextsInv'
    OBVIOUS
  <1>1. MemoryTypeOK
    BY DEF TextsInv
  <1>2. ASSUME NEW c \in Contents \cup {<<>>}, SetIdentity(c) \/ SetSessionSummary(c)
        PROVE  TextsInv'
    <2>1. c \in Texts
      BY ShortTexts
    <2>2. CASE SetIdentity(c)
      BY <1>1, <2>1, <2>2, EditsAreSaved DEF SetIdentity, MemoryTypeOK, Ready
    <2>3. CASE SetSessionSummary(c)
      BY <1>1, <2>1, <2>3, EditsAreSaved DEF SetSessionSummary, MemoryTypeOK, Ready
    <2> QED BY <1>2, <2>2, <2>3
  <1>3. ASSUME NEW c \in Contents, AppendToIdentity(c)
        PROVE  TextsInv'
    <2> DEFINE text == m_identity \o <<NL>> \o c
    <2>1. /\ m_identity \in Seq(Symbol) /\ c \in Seq(Symbol) /\ <<NL>> \in Seq(Symbol) /\ Len(<<NL>>) = 1
          /\ Len(m_identity) + 1 + Len(c) =< MaxText
      BY <1>1, <1>3, TextsAreBounded, ShortTexts DEF MemoryTypeOK, AppendToIdentity, Symbol
    <2>2. text \in Seq(Symbol) /\ Len(text) = Len(m_identity) + 1 + Len(c)
      BY <2>1
    <2>3. text \in Texts
      BY <2>1, <2>2, TextsAreBounded
    <2>4. SetIdentity(text)
      BY <1>3 DEF AppendToIdentity
    <2> HIDE DEF text
    <2> QED BY <1>1, <2>3, <2>4, EditsAreSaved DEF SetIdentity, MemoryTypeOK, Ready
  <1>4. ASSUME NEW c \in Contents, AppendToConversation(c)
        PROVE  TextsInv'
    <2> DEFINE text == m_conversation \o c \o <<NL>>
    <2>1. /\ m_conversation \in Seq(Symbol) /\ c \in Seq(Symbol) /\ <<NL>> \in Seq(Symbol) /\ Len(<<NL>>) = 1
          /\ Len(m_conversation) + Len(c) + 1 =< MaxText
      BY <1>1, <1>4, TextsAreBounded, ShortTexts DEF MemoryTypeOK, AppendToConversation, Symbol
    <2>2. text \in Seq(Symbol) /\ Len(text) = Len(m_conversation) + Len(c) + 1
      BY <2>1
    <2>3. text \in Texts
      BY <2>1, <2>2, TextsAreBounded
    <2>4. SetConversation(text)
      BY <1>4 DEF AppendToConversation
    <2> HIDE DEF text
    <2>5. MemoryTypeOK'
      BY <1>1, <2>3, <2>4 DEF SetConversation, MemoryTypeOK, disk
    <2> QED BY <2>4, <2>5, FilesStay DEF SetConversation, disk
  <1>5. CASE ClearConversation
    <2>1. MemoryTypeOK'
      BY <1>1, <1>5, ShortTexts DEF ClearConversation, SetConversation, MemoryTypeOK, disk
    <2> QED BY <1>5, <2>1, FilesStay DEF ClearConversation, SetConversation, disk
  <1>6. ASSUME NEW m \in 1..TotalLines, NEW n \in m..TotalLines, NEW r \in Words \cup {DELETE},
               ApplyReplaceCommand(m, n, r)
        PROVE  TextsInv'
    <2> PICK s \in Sections : \E text \in {WithReplaced(s, m, n, r)} :
             /\ Ready /\ Len(text) =< MaxText
             /\ m_identity' = IF s = "identity" THEN text ELSE m_identity
             /\ m_session_summary' = IF s = "session" THEN text ELSE m_session_summary
             /\ m_conversation' = IF s = "conversation" THEN text ELSE m_conversation
             /\ IF s = "conversation" THEN UNCHANGED saving ELSE SaveToDisk
             /\ UNCHANGED <<disk, up, m_initialized, engine, thread, saved>>
      BY <1>6, SoughtType DEF ApplyReplaceCommand
    <2> DEFINE text == WithReplaced(s, m, n, r)
    <2>1. /\ Ready /\ Len(text) =< MaxText
          /\ m_identity' = IF s = "identity" THEN text ELSE m_identity
          /\ m_session_summary' = IF s = "session" THEN text ELSE m_session_summary
          /\ m_conversation' = IF s = "conversation" THEN text ELSE m_conversation
          /\ IF s = "conversation" THEN UNCHANGED saving ELSE SaveToDisk
          /\ UNCHANGED <<disk, up, m_initialized, engine, thread, saved>>
      OBVIOUS
    <2>2. text \in Texts
      BY <1>1, <2>1, WithReplacedType, TextsAreBounded
    <2>3. m_identity' \in Texts /\ m_session_summary' \in Texts /\ m_conversation' \in Texts
      BY <1>1, <2>1, <2>2 DEF MemoryTypeOK
    <2>4. CASE s = "conversation"
      <3>1. MemoryTypeOK'
        BY <1>1, <2>1, <2>3, <2>4 DEF MemoryTypeOK, disk
      <3> QED BY <2>1, <2>4, <3>1, FilesStay DEF disk
    <2>5. CASE s # "conversation"
      BY <2>1, <2>3, <2>5, EditsAreSaved DEF Ready
    <2> QED BY <2>4, <2>5
  <1>7. ASSUME NEW f \in Names, WriteArchiveFile(f) \/ DeleteArchiveFile(f) \/ PlaceArchiveFile(f)
        PROVE  TextsInv'
    <2>1. CASE Ready /\ Relocked
      BY <1>1, <2>1 DEF TextsInv, Relocked, MemoryTypeOK, OnDisk, Content, disk, memory, Ready
    <2>2. CASE ~(Ready /\ Relocked)
      <3>1. /\ archive' \subseteq archive \cup {Safe(f)}
            /\ UNCHANGED <<identity_txt, session_txt, memory, up, m_initialized, engine, saving, thread, saved>>
        BY <1>7, <2>2 DEF WriteArchiveFile, DeleteArchiveFile, PlaceArchiveFile
      <3>2. MemoryTypeOK'
        BY <1>1, <3>1 DEF MemoryTypeOK, memory
      <3> QED BY <3>1, <3>2, FilesStay DEF memory
    <2> QED BY <2>1, <2>2
  <1>8. CASE SearchArchive
    BY <1>1, <1>8 DEF SearchArchive, TextsInv, Relocked, MemoryTypeOK, OnDisk, Content, disk, memory, Ready
  <1>9. CASE OpenIdentity
    BY <1>1, <1>9, ShortTexts DEF OpenIdentity, TextsInv, MemoryTypeOK, OnDisk, Content, memory
  <1>10. CASE WriteIdentity
    BY <1>1, <1>10 DEF WriteIdentity, TextsInv, MemoryTypeOK, OnDisk, Content, memory
  <1>11. CASE OpenSession
    BY <1>1, <1>11, ShortTexts DEF OpenSession, TextsInv, MemoryTypeOK, OnDisk, Content, memory
  <1>12. CASE WriteSession
    <2>1. MemoryTypeOK'
      BY <1>1, <1>12 DEF WriteSession, MemoryTypeOK, memory
    <2>2. up /\ m_initialized => m_identity # Absent /\ m_session_summary # Absent /\ identity_txt = m_identity
      BY <1>1, <1>12, TextsAreThere DEF WriteSession, TextsInv, MemoryTypeOK, OnDisk
    <2> QED BY <1>12, <2>1, <2>2 DEF WriteSession, TextsInv, OnDisk, Content, memory
  <1>13. ASSUME NEW outcome \in {"failed", "ready"}, Initialize(outcome)
         PROVE  TextsInv'
    <2>1. Content(identity_txt) \in Texts /\ Content(session_txt) \in Texts
      BY <1>1, ShortTexts DEF MemoryTypeOK, Content
    <2>2. MemoryTypeOK'
      BY <1>1, <1>13, <2>1, ShortTexts DEF Initialize, LoadFromDisk, MemoryTypeOK, disk
    <2>3. OnDisk'
      BY <1>13 DEF Initialize, LoadFromDisk, OnDisk, Content, Ready, disk
    <2> QED BY <1>13, <2>2, <2>3 DEF TextsInv, Initialize, Ready
  <1>14. CASE Shutdown
    <2>1. MemoryTypeOK'
      BY <1>1, <1>14 DEF Shutdown, MemoryTypeOK, disk, memory
    <2> QED BY <1>14, <2>1, FilesStay DEF Shutdown, disk, memory
  <1>15. CASE Exit
    <2>1. MemoryTypeOK'
      BY <1>1, <1>15 DEF Exit, SaveToDisk, MemoryTypeOK, disk, memory
    <2>2. (saving # "no" => up /\ m_initialized)'
      BY <1>15 DEF TextsInv, Exit, SaveToDisk, Ready
    <2>3. (up /\ m_initialized => OnDisk)'
      BY <1>15 DEF TextsInv, Exit, SaveToDisk, OnDisk, Ready, Content, disk, memory
    <2> QED BY <2>1, <2>2, <2>3 DEF TextsInv
  <1>16. CASE Exited
    BY <1>1, <1>16 DEF Exited, TextsInv, MemoryTypeOK, disk, memory
  <1>17. CASE Crash
    BY <1>1, <1>17 DEF Crash, TextsInv, MemoryTypeOK, disk, memory
  <1>18. CASE Start
    <2>1. Content(identity_txt) \in Texts /\ Content(session_txt) \in Texts
      BY <1>1, ShortTexts DEF MemoryTypeOK, Content
    <2> QED BY <1>1, <1>18, <2>1, ShortTexts DEF Start, TextsInv, MemoryTypeOK, disk
  <1>19. CASE UNCHANGED memoryVars
    <2>1. MemoryTypeOK'
      BY <1>1, <1>19 DEF MemoryTypeOK, memoryVars, disk, memory
    <2> QED BY <1>19, <2>1, FilesStay DEF memoryVars, disk, memory
  <1> QED BY <1>2, <1>3, <1>4, <1>5, <1>6, <1>7, <1>8, <1>9, <1>10, <1>11, <1>12, <1>13,
             <1>14, <1>15, <1>16, <1>17, <1>18, <1>19 DEF MemoryNext

\* The texts keep their types, and the files what they should at each stage.
THEOREM TextsWellKept == MemorySpec => []TextsInv
  <1> QED BY TextsInit, TextsStep, PTL DEF MemorySpec

\* What the agent has is on disk once it is saved, and a crash in the middle of
\* SaveToDisk loses one of the two texts at most.
THEOREM EditsSurvive == MemorySpec => []MemorySurvives
  <1>1. TextsInv => MemorySurvives
    <2> SUFFICES ASSUME TextsInv PROVE MemorySurvives
      OBVIOUS
    <2>1. Durable
      BY DEF TextsInv, OnDisk, Durable
    <2>2. m_identity # Absent
      BY TextsAreThere DEF TextsInv, MemoryTypeOK
    <2>3. CrashLosesOne
      BY <2>2 DEF TextsInv, MemoryTypeOK, OnDisk, CrashLosesOne, Torn, Content
    <2> QED BY <2>1, <2>3 DEF MemorySurvives
  <1> QED BY <1>1, TextsWellKept, PTL

-----------------------------------------------------------------------------
(* The numbers of lines *)

\* The line that has the number n in a section that starts with the number first.
LEMMA LinesAtStart ==
    ASSUME NEW first \in Int, NEW n \in Int, NEW size \in Nat
    PROVE  {j \in 1..size : first + j - 1 \in n..n} = {n - first + 1} \cap (1..size)
  OBVIOUS

\* Where an edit goes that names a line by the number which the prompt shows for
\* it, once a warning is shown and there is an identity: to the next line of the
\* identity, to the line itself of the session summary, and to the line before
\* of a conversation behind a summary; at an end of a section, to none.
MovedLines ==
    AnyWarning /\ Size("identity") # 0 =>
        \A s \in Sections : \A i \in 1..Size(s) :
            LET moved == CASE s = "identity" -> i + 1
                           [] s = "session" -> i
                           [] s = "conversation" -> IF Size("session") = 0 THEN i ELSE i - 1
            IN  Changed(s, ShownFirst(s) + i - 1) = {moved} \cap (1..Size(s))

\* How far ApplyReplaceCommand misses the numbers of BuildNumberedContext, for
\* sections of any sizes: NumberedLineIsReplaced fails in this way only.
THEOREM LinesAreMoved == MemorySpec => []MovedLines
  <1>1. TextsInv => MovedLines
    <2> SUFFICES ASSUME TextsInv, Size("identity") # 0, NEW s \in Sections, NEW i \in 1..Size(s)
                 PROVE  LET moved == CASE s = "identity" -> i + 1
                                       [] s = "session" -> i
                                       [] s = "conversation" -> IF Size("session") = 0 THEN i ELSE i - 1
                        IN  Changed(s, ShownFirst(s) + i - 1) = {moved} \cap (1..Size(s))
      BY DEF MovedLines
    <2> DEFINE a == Size("identity")
               b == Size("session")
               c == Size("conversation")
    <2>1. a \in Nat /\ b \in Nat /\ c \in Nat /\ a # 0
      BY SectionsType DEF TextsInv, Sections
    <2>2. i \in 1..Size(s) /\ i \in Int
      BY SectionsType, <2>1 DEF Sections, a, b, c
    <2> DEFINE n == ShownFirst(s) + i - 1
    <2>3. CASE s = "identity"
      <3>1. i \in 1..a /\ n = i + 1
        BY <2>2, <2>3 DEF ShownFirst
      <3> HIDE DEF n
      <3>2. Sought(n, n) = s
        BY <2>1, <2>3, <3>1 DEF Sought, Overlaps, SectionStart, SectionEnd, TotalLines
      <3>3. Replaced(s, n, n) = {i + 1} \cap (1..a)
        BY <2>1, <2>3, <3>1, LinesAtStart DEF Replaced, SectionStart
      <3> QED BY <2>3, <3>2, <3>3 DEF Changed, n
    <2>4. CASE s = "session"
      <3>1. i \in 1..b /\ n = a + i + 2
        BY <2>1, <2>2, <2>4 DEF ShownFirst
      <3> HIDE DEF n
      <3>2. Sought(n, n) = s
        BY <2>1, <2>4, <3>1 DEF Sought, Overlaps, SectionStart, SectionEnd, TotalLines
      <3>3. Replaced(s, n, n) = {i} \cap (1..b)
        <4>1. SectionStart(s) = a + 3 /\ a + 3 \in Int /\ n \in Int /\ n - (a + 3) + 1 = i
          BY <2>1, <2>4, <3>1 DEF SectionStart
        <4>2. Replaced(s, n, n) = {j \in 1..b : (a + 3) + j - 1 \in n..n}
          BY <2>4, <4>1 DEF Replaced
        <4> HIDE DEF a, b
        <4> QED BY <2>1, <4>1, <4>2, LinesAtStart
      <3> QED BY <2>4, <3>2, <3>3 DEF Changed, n
    <2>5. CASE s = "conversation"
      <3> DEFINE moved == IF b = 0 THEN i ELSE i - 1
      <3>1. i \in 1..c /\ n = a + b + moved + 4 /\ moved \in 0..c
        BY <2>1, <2>2, <2>5 DEF ShownFirst
      <3> HIDE DEF n
      <3>2. Sought(n, n) = IF moved = 0 THEN "none" ELSE s
        BY <2>1, <2>5, <3>1 DEF Sought, Overlaps, SectionStart, SectionEnd, TotalLines
      <3>3. Replaced(s, n, n) = {moved} \cap (1..c)
        BY <2>1, <2>5, <3>1, LinesAtStart DEF Replaced, SectionStart
      <3>4. Changed(s, n) = {moved} \cap (1..c)
        BY <2>5, <3>1, <3>2, <3>3 DEF Changed
      <3> QED BY <2>5, <3>4 DEF n
    <2> QED BY <2>3, <2>4, <2>5 DEF Sections
  <1> QED BY <1>1, TextsWellKept, PTL

-----------------------------------------------------------------------------
(* What the language model is asked with: ContextBuilder *)

-----------------------------------------------------------------------------
(* The marks of a context *)

\* What contexts are made of.
Parts == [kind : {"plain", "open", "close", "status", "statement"}, n : Int]

\* SelectInSeq finds the first element that is the mark.
FirstMark(text, mark) == SelectInSeq(text, LAMBDA p : p = mark)

\* It is a position of the mark, and no other comes before it.
LEMMA FirstMarkProperties ==
    ASSUME NEW text \in Seq(Parts), NEW mark, Contains(text, mark)
    PROVE  /\ FirstMark(text, mark) \in 1..Len(text)
           /\ text[FirstMark(text, mark)] = mark
           /\ \A j \in 1..Len(text) : text[j] = mark => FirstMark(text, mark) =< j
  <1> DEFINE I == {i \in 1..Len(text) : text[i] = mark}
  <1>1. FirstMark(text, mark) = IF I # {} THEN Min(I) ELSE 0
    BY DEF SelectInSeq, FirstMark
  <1>2. I \in SUBSET Nat
    OBVIOUS
  <1>3. I # {}
    BY DEF Contains
  <1>4. \A i : i \in I <=> i \in 1..Len(text) /\ text[i] = mark
    OBVIOUS
  <1> HIDE DEF I
  <1>5. Min(I) \in I /\ \A j \in I : Min(I) =< j
    BY <1>2, <1>3, LeastChosen DEF Min
  <1> QED BY <1>1, <1>3, <1>4, <1>5

-----------------------------------------------------------------------------
(* What the model is asked with *)

\* The statements before the status block.
Statements == FlattenSeq([i \in DOMAIN contents |-> Shown(i)])

\* The mark that opens a block is followed by the one that closes it.
Closed(text) ==
    \A k \in 1..Len(text) : text[k] = Open => k + 1 \in 1..Len(text) /\ text[k + 1] = Close

\* Two texts of closed blocks make one.
LEMMA ClosedJoined ==
    ASSUME NEW a \in Seq(Parts), NEW b \in Seq(Parts), Closed(a), Closed(b)
    PROVE  Closed(a \o b)
  <1> DEFINE both == a \o b
  <1>1. Len(a) \in Nat /\ Len(b) \in Nat
    OBVIOUS
  <1>2. /\ Len(both) = Len(a) + Len(b)
        /\ \A j \in 1..(Len(a) + Len(b)) : both[j] = IF j =< Len(a) THEN a[j] ELSE b[j - Len(a)]
    BY ConcatProperties
  <1> HIDE DEF both
  <1> SUFFICES ASSUME NEW k \in 1..Len(both), both[k] = Open
               PROVE  k + 1 \in 1..Len(both) /\ both[k + 1] = Close
    BY DEF Closed, both
  <1>3. CASE k =< Len(a)
    <2>1. k \in 1..Len(a) /\ a[k] = Open
      BY <1>1, <1>2, <1>3
    <2>2. k + 1 \in 1..Len(a) /\ a[k + 1] = Close
      BY <2>1 DEF Closed
    <2>3. k + 1 \in 1..(Len(a) + Len(b)) /\ k + 1 =< Len(a)
      BY <1>1, <2>2
    <2> QED BY <1>2, <2>2, <2>3
  <1>4. CASE ~(k =< Len(a))
    <2>1. k - Len(a) \in 1..Len(b) /\ b[k - Len(a)] = Open
      BY <1>1, <1>2, <1>4
    <2>2. (k - Len(a)) + 1 \in 1..Len(b) /\ b[(k - Len(a)) + 1] = Close
      BY <2>1 DEF Closed
    <2>3. /\ k + 1 \in 1..(Len(a) + Len(b)) /\ ~(k + 1 =< Len(a))
          /\ (k + 1) - Len(a) = (k - Len(a)) + 1
      BY <1>1, <1>2, <1>4, <2>2
    <2> QED BY <1>2, <2>2, <2>3
  <1> QED BY <1>3, <1>4

\* What a statement is shown as.
LEMMA ShownProperties ==
    ASSUME NEW i \in Int, contents[i] \in Kinds
    PROVE  /\ Shown(i) \in Seq(Parts) /\ Contains(Shown(i), Piece("statement", i))
           /\ contents[i] # "open" => Closed(Shown(i))
  <1> DEFINE p == Piece("statement", i)
  <1>1. /\ p \in Parts /\ Open \in Parts /\ Close \in Parts
        /\ p # Open /\ Close # Open
    BY DEF Piece, Parts, Open, Close
  <1>2. \/ Shown(i) = <<p>>
        \/ Shown(i) = <<p, Close>>
        \/ Shown(i) = <<p, Open, Close>>
        \/ contents[i] = "open" /\ Shown(i) = <<p, Open>>
    BY DEF Shown, Kinds
  <1> HIDE DEF p
  <1>3. \A a, b, c \in Parts :
           /\ <<a>> \in Seq(Parts) /\ <<a, b>> \in Seq(Parts) /\ <<a, b, c>> \in Seq(Parts)
           /\ <<a>>[1] = a /\ <<a, b>>[1] = a /\ <<a, b, c>>[1] = a
           /\ 1 \in 1..Len(<<a>>) /\ 1 \in 1..Len(<<a, b>>) /\ 1 \in 1..Len(<<a, b, c>>)
    <2> HIDE DEF Parts
    <2> QED OBVIOUS
  <1>5. /\ Shown(i) \in Seq(Parts)
        /\ Shown(i)[1] = p /\ 1 \in 1..Len(Shown(i))
    <2> HIDE DEF Parts, Open, Close
    <2>1. CASE Shown(i) = <<p>>
      BY <1>1, <1>3, <2>1
    <2>2. CASE Shown(i) = <<p, Close>>
      BY <1>1, <1>3, <2>2
    <2>3. CASE Shown(i) = <<p, Open, Close>>
      BY <1>1, <1>3, <2>3
    <2>4. CASE Shown(i) = <<p, Open>>
      BY <1>1, <1>3, <2>4
    <2> QED BY <1>2, <2>1, <2>2, <2>3, <2>4
  <1>6. Contains(Shown(i), p)
    BY <1>5 DEF Contains
  <1>7. ASSUME contents[i] # "open" PROVE Closed(Shown(i))
    <2> HIDE DEF Open, Close
    <2>1. CASE Shown(i) = <<p>>
      BY <1>1, <2>1 DEF Closed
    <2>2. CASE Shown(i) = <<p, Close>>
      BY <1>1, <2>2 DEF Closed
    <2>3. CASE Shown(i) = <<p, Open, Close>>
      BY <1>1, <2>3 DEF Closed
    <2> QED BY <1>2, <1>7, <2>1, <2>2, <2>3
  <1> QED BY <1>5, <1>6, <1>7 DEF p

\* All statements are there, and unless one opens a block that it does not close,
\* the blocks in them are closed.
LEMMA StatementsJoined ==
    ASSUME contents \in Seq(Kinds)
    PROVE  /\ Statements \in Seq(Parts)
           /\ \A i \in DOMAIN contents : Contains(Statements, Piece("statement", i))
           /\ (\A i \in DOMAIN contents : contents[i] # "open") => Closed(Statements)
  <1> DEFINE shown == [i \in DOMAIN contents |-> Shown(i)]
             n == Len(contents)
  <1>1. n \in Nat /\ DOMAIN contents = 1..n /\ \A i \in 1..n : contents[i] \in Kinds
    OBVIOUS
  <1> HIDE DEF n
  <1>2. \A i \in 1..n : Piece("statement", i) \in Parts
    BY <1>1 DEF Piece, Parts
  <1>3. \A i \in 1..n : /\ Shown(i) \in Seq(Parts) /\ Contains(Shown(i), Piece("statement", i))
                        /\ contents[i] # "open" => Closed(Shown(i))
    BY <1>1, ShownProperties
  <1>4. shown \in Seq(Seq(Parts)) /\ DOMAIN shown = 1..n /\ Len(shown) = n
    BY <1>1, <1>3
  <1>5. \A i \in 1..n : shown[i] = Shown(i)
    BY <1>1
  <1>6. FlattenSeq(shown) = Statements
    BY DEF Statements
  <1> HIDE DEF shown
  <1>7. Statements \in Seq(Parts)
    BY <1>4, <1>6, FlattenSeqProperties
  <1>8. \A i \in 1..n : Contains(Statements, Piece("statement", i))
    <2>1. \A i \in 1..n : \A x \in Parts : Contains(shown[i], x) => Contains(FlattenSeq(shown), x)
      BY <1>4, FlattenSeqProperties
    <2> QED BY <1>2, <1>3, <1>5, <1>6, <2>1
  <1>9. ASSUME \A i \in 1..n : contents[i] # "open" PROVE Closed(Statements)
    <2>1. PICK f : /\ IsJoin(f, shown)
                   /\ FlattenSeq(shown) = IF Len(shown) = 0 THEN shown ELSE f[Len(shown)]
                   /\ \A i \in 1..Len(shown) : f[i] \in Seq(Parts)
      BY <1>4, JoinExists
    <2>2. /\ \A i \in 1..n : f[i] = IF i = 1 THEN Shown(i) ELSE f[i - 1] \o Shown(i)
          /\ \A i \in 1..n : f[i] \in Seq(Parts)
      BY <1>4, <1>5, <2>1 DEF IsJoin
    <2> DEFINE Unclosed == {k \in Nat : k \in 1..n /\ ~Closed(f[k])}
    <2>3. Unclosed = {}
      <3> SUFFICES ASSUME Unclosed # {} PROVE FALSE
        OBVIOUS
      <3>1. PICK k \in Unclosed : \A m \in Unclosed : k =< m
        BY LeastNumber
      <3>2. k \in Nat /\ k \in 1..n /\ ~Closed(f[k])
        BY <3>1
      <3>3. CASE k = 1
        BY <1>3, <1>9, <2>2, <3>2, <3>3
      <3>4. CASE k # 1
        <4>1. k - 1 \in 1..n /\ k - 1 \in Nat /\ k - 1 < k
          BY <1>1, <3>2, <3>4
        <4>2. Closed(f[k - 1])
          <5>1. k - 1 \notin Unclosed
            <6> HIDE DEF Unclosed
            <6> QED BY <3>1, <3>2, <4>1
          <5> QED BY <4>1, <5>1
        <4>3. f[k] = f[k - 1] \o Shown(k) /\ f[k - 1] \in Seq(Parts)
          BY <2>2, <3>2, <3>4, <4>1
        <4>4. Shown(k) \in Seq(Parts) /\ Closed(Shown(k))
          BY <1>3, <1>9, <3>2
        <4>5. Closed(f[k - 1] \o Shown(k))
          BY <4>2, <4>3, <4>4, ClosedJoined
        <4> QED BY <3>2, <4>3, <4>5
      <3> QED BY <3>3, <3>4
    <2>4. CASE n = 0
      <3>1. Statements = shown /\ Len(shown) = 0
        BY <1>4, <1>6, <2>1, <2>4
      <3>2. Len(Statements) = 0
        BY <3>1
      <3> QED BY <3>2 DEF Closed
    <2>5. CASE n # 0
      <3>1. n \in 1..n /\ n \in Nat /\ Statements = f[n]
        BY <1>1, <1>4, <1>6, <2>1, <2>5
      <3> QED BY <2>3, <3>1
    <2> QED BY <2>4, <2>5
  <1> QED BY <1>1, <1>7, <1>8, <1>9

\* BuildStatementContext: the statements, then a block.
LEMMA ContextParts ==
    ASSUME contents \in Seq(Kinds), m_current_round \in Int
    PROVE  /\ StatementContext \in Seq(Parts)
           /\ Len(StatementContext) = Len(Statements) + 3 /\ Len(Statements) \in Nat
           /\ \A j \in 1..Len(Statements) : StatementContext[j] = Statements[j]
           /\ StatementContext[Len(Statements) + 1] = Open
           /\ StatementContext[Len(Statements) + 3] = Close
           /\ Contains(StatementContext, Open) /\ Contains(StatementContext, Close)
  <1> DEFINE status == StatusBlock(m_current_round)
  <1>1. Statements \in Seq(Parts)
    BY StatementsJoined
  <1>2. status \in Seq(Parts) /\ Len(status) = 3 /\ status[1] = Open /\ status[3] = Close
    BY DEF StatusBlock, Open, Close, Piece, Parts
  <1>3. StatementContext = Statements \o status
    BY DEF StatementContext, Statements
  <1> HIDE DEF status
  <1>4. /\ StatementContext \in Seq(Parts) /\ Len(StatementContext) = Len(Statements) + 3
        /\ Len(Statements) \in Nat
        /\ \A j \in 1..Len(Statements) : StatementContext[j] = Statements[j]
        /\ StatementContext[Len(Statements) + 1] = Open
        /\ StatementContext[Len(Statements) + 3] = Close
    <2> DEFINE before == Statements
    <2>1. before \in Seq(Parts) /\ Len(before) \in Nat
      BY <1>1
    <2>2. StatementContext = before \o status
      BY <1>3
    <2> HIDE DEF before
    <2>3. /\ StatementContext \in Seq(Parts) /\ Len(StatementContext) = Len(before) + 3
          /\ \A j \in 1..Len(before) : StatementContext[j] = before[j]
          /\ \A j \in 1..3 : StatementContext[Len(before) + j] = status[j]
      <3>1. /\ before \o status \in Seq(Parts)
            /\ Len(before \o status) = Len(before) + Len(status)
            /\ \A j \in 1..(Len(before) + Len(status)) :
                  (before \o status)[j] = IF j =< Len(before) THEN before[j]
                                           ELSE status[j - Len(before)]
        BY <1>2, <2>1, ConcatProperties
      <3>2. \A j \in 1..3 : /\ Len(before) + j \in 1..(Len(before) + 3)
                            /\ ~(Len(before) + j =< Len(before))
                            /\ Len(before) + j - Len(before) = j
        BY <2>1
      <3>3. \A j \in 1..Len(before) : j \in 1..(Len(before) + 3) /\ j =< Len(before)
        BY <2>1
      <3> QED BY <1>2, <2>2, <3>1, <3>2, <3>3
    <2>4. 1 \in 1..3 /\ 3 \in 1..3
      OBVIOUS
    <2>5. /\ StatementContext[Len(before) + 1] = Open
          /\ StatementContext[Len(before) + 3] = Close
      BY <1>2, <2>3, <2>4
    <2> QED BY <2>1, <2>3, <2>5 DEF before
  <1>5. /\ Len(Statements) + 1 \in 1..Len(StatementContext)
        /\ Len(Statements) + 3 \in 1..Len(StatementContext)
    BY <1>4
  <1>6. Contains(StatementContext, Open) /\ Contains(StatementContext, Close)
    BY <1>4, <1>5 DEF Contains
  <1> QED BY <1>4, <1>6

\* What BuildContext asks with.
LEMMA BuiltIsWhole ==
    ASSUME contents \in Seq(Kinds), m_current_round \in Int, loop_round \in Int,
           BuildContext
    PROVE  ContextIsWhole'
  <1> DEFINE text == StatementContext
             start == FirstMark(text, Open)
             end == FirstMark(text, Close)
             head == SubSeq(text, 1, start)
             status == <<Piece("status", loop_round), Close>>
             tail == SubSeq(text, end, Len(text))
  <1>1. /\ text \in Seq(Parts) /\ Len(text) = Len(Statements) + 3 /\ Len(Statements) \in Nat
        /\ \A j \in 1..Len(Statements) : text[j] = Statements[j]
        /\ text[Len(Statements) + 1] = Open
        /\ Contains(text, Open) /\ Contains(text, Close)
    BY ContextParts
  <1> HIDE DEF text
  <1>2. /\ start \in 1..Len(text) /\ text[start] = Open
        /\ \A j \in 1..Len(text) : text[j] = Open => start =< j
    BY <1>1, FirstMarkProperties
  <1>3. /\ end \in 1..Len(text)
        /\ \A j \in 1..Len(text) : text[j] = Close => end =< j
    BY <1>1, FirstMarkProperties
  <1> HIDE DEF start, end
  <1>4. context' = head \o status \o tail
    <2>1. context' = UpdateSystemStatus(text, loop_round)
      BY DEF BuildContext, text
    <2>2. start # 0 /\ end # 0
      BY <1>1, <1>2, <1>3
    <2> QED BY <2>1, <2>2 DEF UpdateSystemStatus, FirstMark, start, end
  <1>5. /\ head \in Seq(Parts) /\ Len(head) = start
        /\ \A j \in 1..start : head[j] = text[j]
    <2>1. \A j \in 1..start : text[j] \in Parts
      BY <1>1, <1>2
    <2>2. start \in Nat /\ 1 =< start
      BY <1>1, <1>2
    <2>3. /\ head \in Seq(Parts) /\ Len(head) = IF 1 =< start THEN start - 1 + 1 ELSE 0
          /\ \A j \in 1..(start - 1 + 1) : head[j] = text[1 + j - 1]
      BY <2>1, <2>2, SubSeqProperties
    <2> HIDE DEF head
    <2>4. \A j \in 1..start : j \in 1..(start - 1 + 1) /\ 1 + j - 1 = j
      BY <2>2
    <2> QED BY <2>2, <2>3, <2>4
  <1>6. /\ tail \in Seq(Parts) /\ Len(tail) = Len(text) - end + 1
        /\ \A j \in 1..(Len(text) - end + 1) : tail[j] = text[end + j - 1]
    <2>1. \A j \in end..Len(text) : text[j] \in Parts
      BY <1>1, <1>3
    <2>2. end \in Int /\ Len(text) \in Int /\ end =< Len(text)
      BY <1>1, <1>3
    <2> QED BY <2>1, <2>2, SubSeqProperties
  <1>7. /\ status \in Seq(Parts) /\ Len(status) = 2
        /\ status[1] = Piece("status", loop_round) /\ status[1] # Open
    BY DEF Piece, Parts, Close, Open
  <1> HIDE DEF head, tail, status
  <1>8. /\ context' \in Seq(Parts) /\ Len(context') = start + 2 + Len(tail) /\ Len(tail) \in Nat
        /\ \A j \in 1..start : context'[j] = text[j]
        /\ context'[start + 1] = Piece("status", loop_round)
        /\ \A j \in 1..Len(tail) : context'[start + 2 + j] = tail[j]
    <2>1. /\ head \o status \in Seq(Parts) /\ Len(head \o status) = start + 2
          /\ \A j \in 1..start : (head \o status)[j] = text[j]
          /\ (head \o status)[start + 1] = status[1]
      <3>1. /\ head \o status \in Seq(Parts)
            /\ Len(head \o status) = Len(head) + Len(status)
            /\ \A j \in 1..(Len(head) + Len(status)) :
                  (head \o status)[j] = IF j =< Len(head) THEN head[j] ELSE status[j - Len(head)]
        BY <1>5, <1>7, ConcatProperties
      <3>2. start \in Nat
        BY <1>1, <1>2
      <3>3. /\ \A j \in 1..start : j \in 1..(start + 2) /\ j =< start
            /\ start + 1 \in 1..(start + 2) /\ ~(start + 1 =< start) /\ start + 1 - start = 1
        BY <3>2
      <3> QED BY <1>5, <1>7, <3>1, <3>3
    <2> DEFINE both == head \o status
    <2>2. /\ both \in Seq(Parts) /\ Len(both) = start + 2
          /\ \A j \in 1..start : both[j] = text[j]
          /\ both[start + 1] = status[1]
          /\ context' = both \o tail
      BY <1>4, <2>1
    <2> HIDE DEF both
    <2>3. start \in Nat /\ start + 1 \in 1..Len(both)
      BY <1>1, <1>2, <2>2
    <2>4. /\ context' \in Seq(Parts) /\ Len(context') = start + 2 + Len(tail) /\ Len(tail) \in Nat
          /\ \A j \in 1..Len(both) : context'[j] = both[j]
          /\ \A j \in 1..Len(tail) : context'[Len(both) + j] = tail[j]
      <3>1. /\ both \o tail \in Seq(Parts)
            /\ Len(both \o tail) = Len(both) + Len(tail)
            /\ \A j \in 1..(Len(both) + Len(tail)) :
                  (both \o tail)[j] = IF j =< Len(both) THEN both[j] ELSE tail[j - Len(both)]
        BY <1>6, <2>2, ConcatProperties
      <3>2. Len(tail) \in Nat /\ Len(both) \in Nat
        BY <1>6, <2>2
      <3>3. \A j \in 1..Len(both) : j \in 1..(Len(both) + Len(tail)) /\ j =< Len(both)
        BY <3>2
      <3>4. \A j \in 1..Len(tail) : /\ Len(both) + j \in 1..(Len(both) + Len(tail))
                                    /\ ~(Len(both) + j =< Len(both))
                                    /\ (Len(both) + j) - Len(both) = j
        BY <3>2
      <3> QED BY <2>2, <3>1, <3>2, <3>3, <3>4
    <2>5. \A j \in 1..start : j \in 1..Len(both)
      BY <2>2, <2>3
    <2> QED BY <1>7, <2>2, <2>3, <2>4, <2>5
  <1>9. FirstStatusIsCurrent'
    <2>1. start \in 1..Len(context') /\ context'[start] = Open
      <3>1. start \in 1..start
        BY <1>1, <1>2
      <3> QED BY <1>1, <1>2, <1>8, <3>1
    <2>2. Contains(context', Open)
      BY <2>1 DEF Contains
    <2>3. /\ FirstMark(context', Open) \in 1..Len(context')
          /\ context'[FirstMark(context', Open)] = Open
          /\ \A j \in 1..Len(context') : context'[j] = Open => FirstMark(context', Open) =< j
      BY <1>8, <2>2, FirstMarkProperties
    <2>4. FirstMark(context', Open) = start
      <3> DEFINE f == FirstMark(context', Open)
      <3>1. f =< start /\ f \in 1..start /\ f \in 1..Len(text)
        BY <1>1, <1>2, <1>8, <2>1, <2>3
      <3>2. text[f] = Open
        BY <1>8, <2>3, <3>1
      <3> HIDE DEF f
      <3>3. start =< f
        BY <1>2, <3>1, <3>2
      <3>4. f = start
        BY <1>1, <1>2, <3>1, <3>3
      <3> QED BY <3>4 DEF f
    <2>5. start # 0 /\ loop_round' = loop_round
      BY <1>1, <1>2 DEF BuildContext
    <2> QED BY <1>8, <2>4, <2>5 DEF FirstStatusIsCurrent, FirstMark, SelectInSeq
  <1>10. ASSUME \A i \in DOMAIN contents : contents[i] # "open", NEW i \in DOMAIN contents
         PROVE  Contains(context', Piece("statement", i))
    <2>1. Closed(Statements) /\ Contains(Statements, Piece("statement", i))
      BY <1>10, StatementsJoined
    <2>2. PICK k \in 1..Len(Statements) : Statements[k] = Piece("statement", i)
      BY <2>1 DEF Contains
    <2>3. k \in Int /\ start \in Int /\ end \in Int /\ k \in 1..Len(text) /\ text[k] = Statements[k]
      BY <1>1, <1>2, <1>3
    <2>4. CASE k =< start
      <3>1. k \in 1..start /\ k \in 1..Len(context')
        BY <1>8, <2>3, <2>4
      <3>2. context'[k] = Piece("statement", i)
        BY <1>8, <2>2, <2>3, <3>1
      <3> QED BY <3>1, <3>2 DEF Contains
    \* The first block is closed before the statement, and what follows is kept.
    <2>5. CASE ~(k =< start)
      <3>1. start \in 1..Len(Statements)
        BY <1>1, <1>2, <2>3, <2>5
      <3>2. start + 1 \in 1..Len(Statements) /\ Statements[start + 1] = Close
        BY <1>1, <1>2, <2>1, <3>1 DEF Closed
      <3>3. start + 1 \in 1..Len(text) /\ text[start + 1] = Close
        BY <1>1, <3>2
      <3>4. end =< start + 1 /\ end =< k
        BY <1>3, <2>3, <2>5, <3>3
      <3> DEFINE j == k - end + 1
      <3>5. j \in 1..(Len(text) - end + 1) /\ end + j - 1 = k
        BY <1>1, <2>3, <3>4
      <3> HIDE DEF j
      <3>6. j \in 1..Len(tail) /\ tail[j] = Piece("statement", i)
        BY <1>6, <2>2, <2>3, <3>5
      <3>7. context'[start + 2 + j] = Piece("statement", i) /\ start + 2 + j \in 1..Len(context')
        BY <1>8, <2>3, <1>2, <3>6
      <3> QED BY <3>7 DEF Contains
    <2> QED BY <2>3, <2>4, <2>5
  <1>11. StatementsAreShown'
    BY <1>10 DEF StatementsAreShown, BuildContext
  <1> QED BY <1>9, <1>11 DEF ContextIsWhole

-----------------------------------------------------------------------------
(* Theorems *)

ContextSpec == ContextInit /\ [][ContextNext]_contextVars

\* There is room for what is recorded, and for a round while there are rounds.
ContextInv ==
    /\ ContextTypeOK
    /\ stage # "idle" => Len(contents) + 2 =< MaxStatements
    /\ stage \in {"building", "answering"} => loop_round < LastRound
    /\ ContextIsWhole

\* Every step of Generate keeps the invariant.
LEMMA ContextStep == ContextInv /\ [ContextNext]_contextVars => ContextInv'
  <1> SUFFICES ASSUME ContextInv, [ContextNext]_contextVars PROVE ContextInv'
    OBVIOUS
  <1>1. /\ contents \in Seq(Kinds) /\ Len(contents) \in Nat /\ Len(contents) =< MaxStatements
        /\ m_current_round \in 0..LastRound /\ loop_round \in 0..LastRound
        /\ LastRound \in Nat \ {0} /\ MaxStatements \in Nat
    BY ContextAssumption DEF ContextInv, ContextTypeOK
  <1>2. stage' # "answering" => ContextIsWhole'
    BY DEF ContextIsWhole, FirstStatusIsCurrent, StatementsAreShown
  <1>3. CASE Prompted
    BY <1>1, <1>2, <1>3 DEF Prompted, ContextInv, ContextTypeOK
  <1>4. CASE BuildContext
    <2>1. ContextIsWhole'
      BY <1>1, <1>4, BuiltIsWhole
    <2> QED BY <1>1, <1>4, <2>1 DEF BuildContext, ContextInv, ContextTypeOK
  <1>5. CASE AnswerWithCommands
    <2>1. contents' \in Seq(Kinds) /\ Len(contents') = Len(contents) + 1
      BY <1>1, <1>5 DEF AnswerWithCommands, Kinds
    <2>2. loop_round < LastRound
      BY <1>5 DEF AnswerWithCommands, ContextInv
    <2> QED BY <1>1, <1>2, <1>5, <2>1, <2>2 DEF AnswerWithCommands, ContextInv, ContextTypeOK
  <1>6. CASE AnswerWithout
    BY <1>1, <1>2, <1>6 DEF AnswerWithout, ContextInv, ContextTypeOK
  <1>7. CASE RecordStatements
    <2>1. PICK prompt, answer \in Kinds : contents' = contents \o <<prompt, answer>>
      BY <1>7 DEF RecordStatements
    <2>2. <<prompt, answer>> \in Seq(Kinds) /\ Len(<<prompt, answer>>) = 2
      OBVIOUS
    <2>3. contents' \in Seq(Kinds) /\ Len(contents') = Len(contents) + 2
      BY <1>1, <2>1, <2>2, ConcatProperties
    <2>4. Len(contents) + 2 =< MaxStatements
      BY <1>7 DEF RecordStatements, ContextInv
    <2> QED BY <1>1, <1>2, <1>7, <2>3, <2>4 DEF RecordStatements, ContextInv, ContextTypeOK
  <1>8. CASE UNCHANGED contextVars
    <2>1. /\ contents' = contents /\ m_current_round' = m_current_round
          /\ loop_round' = loop_round /\ context' = context /\ stage' = stage
      BY <1>8 DEF contextVars
    <2>2. StatementsAreShown'
      BY <2>1 DEF ContextInv, ContextIsWhole, StatementsAreShown
    <2>3. FirstStatusIsCurrent'
      BY <2>1 DEF ContextInv, ContextIsWhole, FirstStatusIsCurrent, SelectInSeq
    <2> QED BY <2>1, <2>2, <2>3 DEF ContextInv, ContextTypeOK, ContextIsWhole
  <1> QED BY <1>3, <1>4, <1>5, <1>6, <1>7, <1>8 DEF ContextNext

\* ContextIsWhole for any number of statements and rounds, whatever marks they
\* hold: the first block is the status of the round, and statements are lost from
\* the context only where one of them opens a block that it does not close.
THEOREM ContextsAreWhole == ContextSpec => []ContextIsWhole
  <1>1. ContextInit => ContextInv
    BY ContextAssumption DEF ContextInit, ContextInv, ContextTypeOK, Kinds, ContextIsWhole,
                             FirstStatusIsCurrent, StatementsAreShown
  <1>2. ContextInv => ContextIsWhole
    BY DEF ContextInv
  <1> QED BY <1>1, <1>2, ContextStep, PTL DEF ContextSpec

-----------------------------------------------------------------------------
(* Which of the threads of a node can outlive the objects that they use: NodeLife *)

NodeSpec == NodeInit /\ [][NodeNext]_nodeVars

\* What main has behind it when it is in one of the stages of the end: it joins
\* in a fixed order, and a thread that has ended does not begin again, because
\* the threads are only started on the way to the keyboard.
Joined ==
    /\ main = "boot" =>
          listener = "none" /\ punch = "none" /\ seed = "none" /\ connector = "none" /\ refresh = "none"
    /\ main \notin {"boot", "start", "commands", "join_listener"} => Ended(listener)
    /\ main \notin {"boot", "start", "commands", "join_listener", "join_punch"} => Ended(punch)
    /\ main \notin {"boot", "start", "commands"} \cup Joining => Ended(seed)
    /\ main = "destroyed" => Ended(refresh)

\* The threads leave main where it is.
ThreadStep == Listen \/ PunchLoop \/ SeedLoop \/ ConnectToSeeds \/ RefreshLoop \/ Arrive

\* Threads end, but none that has ended goes on.
LEMMA EndedStaysEnded ==
    ASSUME ThreadStep
    PROVE  /\ main' = main
           /\ Ended(listener) => Ended(listener)'
           /\ Ended(punch) => Ended(punch)'
           /\ Ended(seed) => Ended(seed)'
           /\ Ended(refresh) => Ended(refresh)'
           /\ main = "boot" => (listener = "none" => listener' = "none")
                               /\ (punch = "none" => punch' = "none")
                               /\ (seed = "none" => seed' = "none")
                               /\ (connector = "none" => connector' = "none")
                               /\ (refresh = "none" => refresh' = "none")
<1> USE DEF Ended
<1>1. CASE Listen
  BY <1>1 DEF Listen
<1>2. CASE PunchLoop
  BY <1>2 DEF PunchLoop, Round
<1>3. CASE SeedLoop
  BY <1>3 DEF SeedLoop, Round
<1>4. CASE ConnectToSeeds
  BY <1>4 DEF ConnectToSeeds
<1>5. CASE RefreshLoop
  BY <1>5 DEF RefreshLoop
<1>6. CASE Arrive
  BY <1>6 DEF Arrive, threads
<1> QED
  BY <1>1, <1>2, <1>3, <1>4, <1>5, <1>6 DEF ThreadStep

\* Every step of the threads keeps the invariant.
LEMMA JoinedInductive == Joined /\ [NodeNext]_nodeVars => Joined'
<1> SUFFICES ASSUME Joined, [NodeNext]_nodeVars PROVE Joined'
  OBVIOUS
<1>1. CASE Boot
  BY <1>1 DEF Boot, Joined, Ended, Joining, threads
<1>2. CASE StartPeerManager
  BY <1>2 DEF StartPeerManager, Joined, Joining
<1>3. CASE ReadKey
  BY <1>3 DEF ReadKey, OnlyMain, threads, Joined, Joining
<1>4. CASE DoCommand
  BY <1>4 DEF DoCommand, Joined, Joining
<1>5. CASE MainEnds
  <2>1. CASE JoinThreads
    BY <1>5, <2>1 DEF JoinThreads, Join, threads, Joined, Joining, Ended
  <2>2. CASE CloseSocket
    BY <1>5, <2>2 DEF CloseSocket, threads, Joined, Joining, Ended
  <2>3. CASE ShutdownNetwork
    BY <1>5, <2>3 DEF ShutdownNetwork, threads, Joined, Joining, Ended
  <2>4. CASE Return
    BY <1>5, <2>4 DEF Return, StopDHT, threads, Joined, Joining, Ended
  <2> QED
    BY <1>5, <2>1, <2>2, <2>3, <2>4 DEF MainEnds
<1>6. CASE ThreadStep
  BY <1>6, EndedStaysEnded DEF Joined, Ended
<1>7. CASE UNCHANGED nodeVars
  BY <1>7 DEF nodeVars, threads, Joined, Ended
<1> QED
  BY <1>1, <1>2, <1>3, <1>4, <1>5, <1>6, <1>7 DEF NodeNext, ThreadStep

\* Whatever the threads were doing when x was pressed, whether or not the start
\* had failed, and for any configuration: of the threads that use the socket
\* only the detached one is left when main closes it (PeerManager::Stop), and the
\* refresh thread, which Stop does not join, has ended when the members that it
\* uses are destroyed (DHT::~DHT).
THEOREM ThreadsEndBeforeTheirObjects == NodeSpec => []OnlyConnectorOutlives
<1>1. NodeInit => Joined
  BY DEF NodeInit, Joined, Joining
<1>2. Joined /\ [NodeNext]_nodeVars => Joined'
  BY JoinedInductive
<1>3. Joined => OnlyConnectorOutlives
  BY DEF Joined, OnlyConnectorOutlives, Joining
<1> QED
  BY <1>1, <1>2, <1>3, PTL DEF NodeSpec

-----------------------------------------------------------------------------
(* The file and what is read of it: ConfigFile *)

\* What stands behind the first i elements of a sequence of sequences.
Behind(s, i) == FlattenSeq(SubSeq(s, i + 1, Len(s)))

\* A sequence of sequences is the first of them and the rest.
LEMMA FlattenFirst ==
    ASSUME NEW T, NEW s \in Seq(Seq(T))
    PROVE  /\ FlattenSeq(s) \in Seq(T)
           /\ s = <<>> => FlattenSeq(s) = <<>>
           /\ s # <<>> => FlattenSeq(s) = s[1] \o FlattenSeq(Tail(s))
  <1>1. PICK f : /\ IsJoin(f, s)
                 /\ FlattenSeq(s) = IF Len(s) = 0 THEN s ELSE f[Len(s)]
                 /\ \A i \in 1..Len(s) : f[i] \in Seq(T)
    BY JoinExists
  <1>2. Len(s) \in Nat /\ \A i \in 1..Len(s) : s[i] \in Seq(T)
    OBVIOUS
  <1>3. CASE s = <<>>
    BY <1>1, <1>3
  <1>4. CASE s # <<>>
    <2> DEFINE t == Tail(s)
               n == Len(t)
    <2>1. /\ t \in Seq(Seq(T)) /\ n = Len(s) - 1 /\ n \in Nat
          /\ \A i \in 1..n : t[i] = s[i + 1] /\ t[i] \in Seq(T)
      BY <1>4, HeadTailProperties
    <2> HIDE DEF t
    <2>2. PICK g : /\ IsJoin(g, t)
                   /\ FlattenSeq(t) = IF Len(t) = 0 THEN t ELSE g[Len(t)]
                   /\ \A i \in 1..Len(t) : g[i] \in Seq(T)
      BY <2>1, JoinExists
    <2>3. Len(s) # 0 /\ FlattenSeq(s) = f[n + 1] /\ n + 1 \in 1..Len(s) /\ 1 \in 1..Len(s)
      BY <1>1, <1>4, <2>1
    <2>4. f[1] = s[1] /\ s[1] \in Seq(T)
      BY <1>1, <1>2, <2>3 DEF IsJoin
    <2> DEFINE Bad == {i \in Nat : i \in 1..n /\ f[i + 1] # s[1] \o g[i]}
    <2>5. Bad = {}
      <3> SUFFICES ASSUME Bad # {} PROVE FALSE
        OBVIOUS
      <3>1. PICK k \in Bad : \A m \in Bad : k =< m
        BY LeastNumber
      <3>2. k \in Nat /\ k \in 1..n /\ f[k + 1] # s[1] \o g[k]
        BY <3>1
      <3>3. k + 1 \in 1..Len(s) /\ k + 1 # 1 /\ f[k + 1] = f[k] \o s[k + 1] /\ s[k + 1] = t[k]
        <4> HIDE DEF n, Bad
        <4>1. k + 1 \in 1..Len(s) /\ k + 1 # 1 /\ (k + 1) - 1 = k
          <5>1. n = Len(s) - 1 /\ n \in Nat /\ k \in Nat /\ k \in 1..n
            BY <2>1, <3>2
          <5> QED BY <1>2, <5>1
        <4> QED BY <1>1, <2>1, <3>2, <4>1 DEF IsJoin
      <3>4. CASE k = 1
        <4>1. g[1] = t[1]
          BY <2>2, <3>2, <3>4 DEF IsJoin
        <4> QED BY <2>4, <3>2, <3>3, <3>4, <4>1
      <3>5. CASE k # 1
        <4>1. k - 1 \in Nat /\ k - 1 \in 1..n /\ k - 1 < k /\ (k - 1) + 1 = k
          BY <2>1, <3>2, <3>5
        <4>2. f[k] = s[1] \o g[k - 1]
          <5>1. k - 1 \notin Bad
            <6> HIDE DEF Bad
            <6> QED BY <3>1, <3>2, <4>1
          <5> QED BY <4>1, <5>1
        <4>3. g[k] = g[k - 1] \o t[k] /\ g[k - 1] \in Seq(T) /\ t[k] \in Seq(T)
          BY <2>1, <2>2, <3>2, <3>5, <4>1 DEF IsJoin
        <4>4. (s[1] \o g[k - 1]) \o t[k] = s[1] \o (g[k - 1] \o t[k])
          <5> HIDE DEF n, Bad
          <5>1. \A a, b, c \in Seq(T) : (a \o b) \o c = a \o (b \o c)
            BY ConcatAssociative
          <5> QED BY <2>4, <4>3, <5>1
        <4> QED BY <3>2, <3>3, <4>2, <4>3, <4>4
      <3> QED BY <3>4, <3>5
    <2>6. CASE n = 0
      <3>1. t = <<>>
        BY <2>1, <2>6
      <3>2. FlattenSeq(t) = <<>> /\ f[n + 1] = f[1] /\ s[1] \o <<>> = s[1]
        BY <2>2, <2>4, <2>6, <3>1
      <3>3. FlattenSeq(s) = s[1] \o FlattenSeq(t) /\ FlattenSeq(s) \in Seq(T)
        BY <2>3, <2>4, <3>2
      <3> QED BY <1>4, <3>3 DEF t
    <2>7. CASE n # 0
      <3>1. n \in 1..n
        BY <2>1, <2>7
      <3>2. f[n + 1] = s[1] \o g[n]
        BY <2>1, <2>5, <3>1
      <3>3. FlattenSeq(t) = g[n] /\ g[n] \in Seq(T)
        BY <2>2, <2>7, <3>1
      <3>4. FlattenSeq(s) = s[1] \o FlattenSeq(t) /\ FlattenSeq(s) \in Seq(T)
        BY <2>3, <2>4, <3>2, <3>3, ConcatProperties
      <3> QED BY <1>4, <3>4 DEF t
    <2> QED BY <2>6, <2>7
  <1> QED BY <1>3, <1>4

\* What stands behind i elements begins with the next.
LEMMA BehindSteps ==
    ASSUME NEW T, NEW s \in Seq(Seq(T))
    PROVE  /\ Behind(s, 0) = FlattenSeq(s)
           /\ Behind(s, Len(s)) = <<>>
           /\ \A i \in 0..Len(s) : Behind(s, i) \in Seq(T)
           /\ \A i \in 0..(Len(s) - 1) : Behind(s, i) = s[i + 1] \o Behind(s, i + 1)
  <1>1. Len(s) \in Nat /\ \A i \in 1..Len(s) : s[i] \in Seq(T)
    OBVIOUS
  <1>2. Behind(s, 0) = FlattenSeq(s)
    <2>1. SubSeq(s, 0 + 1, Len(s)) = s
      BY SubSeqFull
    <2> QED BY <2>1 DEF Behind
  <1>3. SubSeq(s, Len(s) + 1, Len(s)) = <<>>
    BY <1>1, SubSeqEmpty
  <1>4. <<>> \in Seq(Seq(T))
    OBVIOUS
  <1>5. Behind(s, Len(s)) = <<>>
    BY <1>3, <1>4, FlattenFirst DEF Behind
  <1>6. ASSUME NEW i \in 0..Len(s) PROVE SubSeq(s, i + 1, Len(s)) \in Seq(Seq(T))
    <2>1. i + 1 \in Int /\ Len(s) \in Int /\ \A j \in (i + 1)..Len(s) : s[j] \in Seq(T)
      BY <1>1
    <2> QED BY <2>1, SubSeqProperties
  <1>7. ASSUME NEW i \in 0..Len(s) PROVE Behind(s, i) \in Seq(T)
    BY <1>6, FlattenFirst DEF Behind
  <1>8. ASSUME NEW i \in 0..(Len(s) - 1) PROVE Behind(s, i) = s[i + 1] \o Behind(s, i + 1)
    <2> DEFINE t == SubSeq(s, i + 1, Len(s))
    <2>1. i \in 0..Len(s) /\ i + 1 \in 1..Len(s) /\ Len(s) \in (i + 1)..Len(s)
      BY <1>1
    <2>2. Head(t) = s[i + 1] /\ Tail(t) = SubSeq(s, (i + 1) + 1, Len(s))
      BY <2>1, HeadTailOfSubSeq
    <2>3. t \in Seq(Seq(T))
      BY <1>6, <2>1
    <2>4. t # <<>> /\ t[1] = Head(t)
      <3>1. Len(t) = Len(s) - i
        BY <2>1
      <3>2. t # <<>>
        <4> HIDE DEF t
        <4> QED BY <1>1, <2>1, <3>1
      <3> HIDE DEF t
      <3> QED BY <2>3, <3>2
    <2> HIDE DEF t
    <2>5. FlattenSeq(t) = t[1] \o FlattenSeq(Tail(t))
      BY <2>3, <2>4, FlattenFirst
    <2> QED BY <2>2, <2>4, <2>5 DEF t, Behind
  <1> QED BY <1>2, <1>5, <1>7, <1>8

-----------------------------------------------------------------------------
(* What Load keeps of any file: ConfigFile *)

\* The function by which ReadAll is defined.
ReadsAll(f, lines) ==
    /\ DOMAIN f = 0..Len(lines)
    /\ \A i \in 0..Len(lines) : f[i] = IF i = 0 THEN Reading ELSE ReadLine(f[i - 1], lines[i])

\* That function exists.
LEMMA ReadingExists ==
    ASSUME NEW T, NEW lines \in Seq(T)
    PROVE  \E f : ReadsAll(f, lines) /\ ReadAll(lines) = f[Len(lines)]
  <1> DEFINE n == Len(lines)
             Reads(f, k) == f = [i \in 0..k |-> IF i = 0 THEN Reading
                                                ELSE ReadLine(f[i - 1], lines[i])]
             read == CHOOSE f : Reads(f, n)
             Missing == {k \in Nat : k =< n /\ \A f : ~Reads(f, k)}
  <1>1. n \in Nat
    OBVIOUS
  <1> HIDE DEF n
  <1>2. Missing = {}
    <2> SUFFICES ASSUME Missing # {} PROVE FALSE
      OBVIOUS
    <2>1. PICK k \in Missing : \A m \in Missing : k =< m
      BY LeastNumber
    <2>2. k \in Nat /\ k =< n /\ \A f : ~Reads(f, k)
      BY <2>1
    <2>3. CASE k = 0
      <3> DEFINE g == [i \in 0..0 |-> Reading]
      <3>1. \A i \in 0..0 : i = 0
        OBVIOUS
      <3>2. Reads(g, 0)
        BY <3>1, Zenon
      <3> QED BY <2>2, <2>3, <3>2
    <2>4. CASE k # 0
      <3>1. k - 1 \in Nat /\ k - 1 < k /\ k - 1 =< n
        BY <1>1, <2>2, <2>4
      <3>2. k - 1 \notin Missing
        <4> HIDE DEF Missing
        <4> QED BY <2>1, <2>2, <3>1
      <3>3. PICK f : Reads(f, k - 1)
        <4> HIDE DEF Reads
        <4> QED BY <3>1, <3>2
      <3> DEFINE g == [i \in 0..k |-> IF i < k THEN f[i] ELSE ReadLine(f[i - 1], lines[i])]
      <3>4. DOMAIN f = 0..(k - 1)
            /\ \A i \in 0..(k - 1) : f[i] = IF i = 0 THEN Reading ELSE ReadLine(f[i - 1], lines[i])
        BY <3>3
      <3>5. ASSUME NEW i \in 0..k
            PROVE  g[i] = IF i = 0 THEN Reading ELSE ReadLine(g[i - 1], lines[i])
        <4>1. CASE i = 0
          <5>1. 0 \in 0..(k - 1) /\ 0 < k
            BY <2>2, <2>4
          <5> QED BY <3>4, <4>1, <5>1
        <4>2. CASE i # 0
          <5>1. i - 1 \in 0..(k - 1) /\ i - 1 \in 0..k /\ i - 1 < k
            BY <2>2, <4>2
          <5>2. g[i - 1] = f[i - 1]
            BY <5>1
          <5>3. g[i] = ReadLine(f[i - 1], lines[i])
            <6>1. CASE i < k
              <7>1. i \in 0..(k - 1)
                BY <2>2, <6>1
              <7> QED BY <3>4, <4>2, <6>1, <7>1
            <6>2. CASE ~(i < k)
              BY <6>2
            <6> QED BY <6>1, <6>2
          <5> QED BY <4>2, <5>2, <5>3
        <4> QED BY <4>1, <4>2
      <3>6. Reads(g, k)
        BY <3>5, Zenon
      <3> QED BY <2>2, <3>6
    <2> QED BY <2>3, <2>4
  <1>3. \E f : Reads(f, n)
    <2>1. n \notin Missing
      BY <1>2
    <2>2. n \in Nat /\ n =< n
      BY <1>1
    <2> HIDE DEF Reads
    <2> QED BY <2>1, <2>2
  <1>4. Reads(read, n)
    BY <1>3, Zenon
  <1>5. ReadAll(lines) = read[n]
    BY DEF ReadAll, n
  <1>6. ReadsAll(read, lines)
    BY <1>4 DEF ReadsAll, n
  <1> QED BY <1>5, <1>6 DEF n

\* What is read of a file is read line by line.
LEMMA ReadSteps ==
    ASSUME NEW T, NEW lines \in Seq(T), NEW line \in T
    PROVE  ReadAll(Append(lines, line)) = ReadLine(ReadAll(lines), line)
  <1> DEFINE more == Append(lines, line)
             n == Len(lines)
  <1>1. /\ more \in Seq(T) /\ n \in Nat /\ Len(more) = n + 1 /\ more[n + 1] = line
        /\ \A i \in 1..n : more[i] = lines[i]
    OBVIOUS
  <1>2. PICK f : ReadsAll(f, lines) /\ ReadAll(lines) = f[n]
    BY ReadingExists
  <1>3. PICK g : ReadsAll(g, more) /\ ReadAll(more) = g[Len(more)]
    BY <1>1, ReadingExists
  <1> DEFINE Bad == {i \in Nat : i =< n /\ g[i] # f[i]}
  <1> HIDE DEF more, n
  <1>4. \A i \in 0..n : f[i] = IF i = 0 THEN Reading ELSE ReadLine(f[i - 1], lines[i])
    BY <1>2 DEF ReadsAll, n
  <1>5. \A i \in 0..(n + 1) : g[i] = IF i = 0 THEN Reading ELSE ReadLine(g[i - 1], more[i])
    BY <1>1, <1>3 DEF ReadsAll
  <1>6. Bad = {}
    <2> SUFFICES ASSUME Bad # {} PROVE FALSE
      OBVIOUS
    <2>1. PICK k \in Bad : \A m \in Bad : k =< m
      BY LeastNumber
    <2>2. k \in Nat /\ k =< n /\ g[k] # f[k] /\ k \in 0..n /\ k \in 0..(n + 1)
      BY <1>1, <2>1
    <2>3. CASE k = 0
      BY <1>4, <1>5, <2>2, <2>3
    <2>4. CASE k # 0
      <3>1. k - 1 \in Nat /\ k - 1 < k /\ k - 1 =< n /\ k \in 1..n
        BY <1>1, <2>2, <2>4
      <3>2. k - 1 \notin Bad
        <4> HIDE DEF Bad
        <4> QED BY <2>1, <2>2, <3>1
      <3>3. g[k - 1] = f[k - 1] /\ more[k] = lines[k]
        BY <1>1, <3>1, <3>2
      <3> QED BY <1>4, <1>5, <2>2, <2>4, <3>3
    <2> QED BY <2>3, <2>4
  <1>7. n \in Nat /\ n =< n /\ n + 1 \in 0..(n + 1) /\ n + 1 # 0 /\ (n + 1) - 1 = n
    BY <1>1
  <1>8. g[n] = f[n]
    BY <1>6, <1>7
  <1>9. g[n + 1] = ReadLine(g[n], more[n + 1])
    BY <1>5, <1>7
  <1> QED BY <1>1, <1>2, <1>3, <1>8, <1>9 DEF more

\* Nothing has been read of nothing.
LEMMA NothingRead == ReadAll(<<>>) = Reading
  <1>1. <<>> \in Seq({1}) /\ Len(<<>>) = 0
    OBVIOUS
  <1>2. PICK f : ReadsAll(f, <<>>) /\ ReadAll(<<>>) = f[0]
    BY <1>1, ReadingExists
  <1> QED BY <1>1, <1>2 DEF ReadsAll

\* The first with a name, if there is one.
LEMMA FirstSelected ==
    ASSUME NEW I \in SUBSET Nat, NEW f, f = IF I # {} THEN Min(I) ELSE 0
    PROVE  I # {} => f \in I
  <1> SUFFICES ASSUME I # {} PROVE f \in I
    OBVIOUS
  <1>1. PICK k \in I : \A m \in I : k =< m
    BY LeastNumber
  <1> QED BY <1>1 DEF Min

\* FindSection finds a section if there is one with the name.
LEMMA SectionFound ==
    ASSUME NEW T, NEW m \in Seq(T), NEW name
    PROVE  /\ FindSection(m, name) \in 0..Len(m)
           /\ FindSection(m, name) = 0 => \A s \in DOMAIN m : m[s].name # name
           /\ FindSection(m, name) # 0 => /\ FindSection(m, name) \in DOMAIN m
                                          /\ m[FindSection(m, name)].name = name
  <1> DEFINE I == {i \in 1..Len(m) : m[i].name = name}
             f == FindSection(m, name)
  <1>1. f = IF I # {} THEN Min(I) ELSE 0
    BY DEF FindSection, SelectInSeq
  <1>2. I \in SUBSET Nat /\ DOMAIN m = 1..Len(m) /\ Len(m) \in Nat /\ 0 \notin I
    OBVIOUS
  <1>3. I # {} => f \in I
    <2> HIDE DEF I, f
    <2> QED BY <1>1, <1>2, FirstSelected
  <1>4. I = {} => f = 0
    BY <1>1
  <1> QED BY <1>2, <1>3, <1>4

\* FindEntry finds an entry if there is one with the key.
LEMMA EntryFound ==
    ASSUME NEW T, NEW section, section.entries \in Seq(T), NEW key
    PROVE  LET E == section.entries
               e == FindEntry(section, key)
           IN  /\ e \in 0..Len(E)
               /\ e = 0 => \A i \in DOMAIN E : E[i].key # key
               /\ e # 0 => e \in DOMAIN E /\ E[e].key = key
  <1> DEFINE E == section.entries
             I == {i \in 1..Len(E) : E[i].key = key}
             f == FindEntry(section, key)
  <1>1. f = IF I # {} THEN Min(I) ELSE 0
    BY DEF FindEntry, SelectInSeq
  <1>2. I \in SUBSET Nat /\ DOMAIN E = 1..Len(E) /\ Len(E) \in Nat /\ 0 \notin I
    OBVIOUS
  <1>3. I # {} => f \in I
    <2> HIDE DEF I, f
    <2> QED BY <1>1, <1>2, FirstSelected
  <1>4. I = {} => f = 0
    BY <1>1
  <1> QED BY <1>2, <1>3, <1>4

\* The names and texts of lines.  The provers do not know of a string that it is in
\* STRING, so that those in the code are named.
LineNames == STRING \cup {NoText, "security", "public_key_pem", "private_key_pem"}
LineTexts == STRING \cup Nat \cup {NoText, "BEGIN", "END"}

LineKinds == {"comment", "header", "entry", "pem", "body", "end", "blank"}
AnyLine == [kind : LineKinds, name : LineNames, text : LineTexts]

\* What m_sections has.
FileEntry == [key : LineNames, value : Seq(AnyLine), comment : LineTexts]
FileSection == [name : LineNames, comment : LineTexts, entries : Seq(FileEntry)]

\* A value of one line.
Plain(v) == Len(v) = 1 /\ v[1].kind = "entry"

\* A key whose last line is missing.
Unended(v) == v[1].kind = "pem" /\ \A k \in 1..Len(v) : v[k].kind # "end"

\* A key with its last line, which an end of line may follow.
HasEnd(v) ==
    /\ v[1].kind = "pem"
    /\ \E n \in 2..Len(v) :
          /\ \A k \in 1..(n - 1) : v[k].kind # "end"
          /\ v[n].kind = "end"
          /\ n = Len(v) \/ (n + 1 = Len(v) /\ v[Len(v)].kind = "blank")

\* Only an entry that is open may lack its last line.
TidyEntry(entry, open) ==
    /\ entry.value # <<>> /\ entry.value[1].name = entry.key
    /\ Plain(entry.value) \/ HasEnd(entry.value) \/ (open /\ Unended(entry.value))

\* A key comes once.
DistinctKeys(entries) == \A i, j \in DOMAIN entries : i # j => entries[i].key # entries[j].key

\* A section has a key once, and only the first has no name.  The open entries
\* are pairs of the numbers of section and entry.
TidySection(section, s, open) ==
    /\ section.name = NoText => s = 1 /\ section.comment = NoText /\ section.entries # <<>>
    /\ DistinctKeys(section.entries)
    /\ \A e \in DOMAIN section.entries : TidyEntry(section.entries[e], <<s, e>> \in open)

\* Settings in which no entries but the open ones lack their last line.
Tidy(m, open) ==
    /\ m \in Seq(FileSection)
    /\ \A i, j \in DOMAIN m : i # j => m[i].name # m[j].name
    /\ \A i \in DOMAIN m : TidySection(m[i], i, open)

\* They are, but for entry e of section s.
TidyBut(m, s, e, open) ==
    /\ m \in Seq(FileSection) /\ s \in DOMAIN m
    /\ \A i, j \in DOMAIN m : i # j => m[i].name # m[j].name
    /\ \A i \in DOMAIN m \ {s} : TidySection(m[i], i, open)
    /\ m[s].name = NoText => s = 1 /\ m[s].comment = NoText
    /\ DistinctKeys(m[s].entries)
    /\ \A i \in DOMAIN m[s].entries \ {e} : TidyEntry(m[s].entries[i], <<s, i>> \in open)

\* R is m, but for entry e of section s, which may be a new one.
ChangedAt(m, R, s, e) ==
    /\ R \in Seq(FileSection) /\ Len(R) = Len(m)
    /\ \A i \in DOMAIN m : i # s => R[i] = m[i]
    /\ R[s].name = m[s].name /\ R[s].comment = m[s].comment
    /\ e \in DOMAIN R[s].entries /\ DOMAIN m[s].entries \subseteq DOMAIN R[s].entries
    /\ \A i \in DOMAIN R[s].entries \ {e} :
          /\ i \in DOMAIN m[s].entries /\ R[s].entries[i] = m[s].entries[i]
          /\ R[s].entries[i].key # R[s].entries[e].key

\* What Load has between two lines: the entry that it reads is the open one.
ReadInv(r) ==
    /\ r \in [sections : Seq(FileSection), current : Nat, pending : LineTexts, pem : Nat]
    /\ Tidy(r.sections, IF r.pem = 0 THEN {} ELSE {<<r.current, r.pem>>})
    /\ r.current =< Len(r.sections)
    /\ r.current = 0 => r.sections = <<>> /\ r.pem = 0
    /\ r.pem # 0 => /\ r.pem \in DOMAIN r.sections[r.current].entries
                    /\ Unended(r.sections[r.current].entries[r.pem].value)

\* A section of tidy settings is tidy but for any of its entries.
LEMMA TidyIsTidyBut ==
    ASSUME NEW m, NEW open, Tidy(m, open), NEW s \in DOMAIN m, NEW e
    PROVE  TidyBut(m, s, e, open)
  BY DEF Tidy, TidyBut, TidySection

\* One entry has been changed, and what is open with it.
LEMMA TidyChanged ==
    ASSUME NEW m, NEW R, NEW s, NEW e, NEW open, NEW open2,
           TidyBut(m, s, e, open), ChangedAt(m, R, s, e),
           TidyEntry(R[s].entries[e], <<s, e>> \in open2),
           open \ {<<s, e>>} \subseteq open2
    PROVE  Tidy(R, open2)
  <1>1. /\ m \in Seq(FileSection) /\ R \in Seq(FileSection) /\ s \in DOMAIN m
        /\ DOMAIN m = DOMAIN R
    BY DEF TidyBut, ChangedAt
  <1>2. \A i \in DOMAIN R : R[i].name = m[i].name
    BY <1>1 DEF ChangedAt
  <1>3. \A i, j \in DOMAIN R : i # j => R[i].name # R[j].name
    BY <1>1, <1>2 DEF TidyBut
  <1>4. ASSUME NEW i \in DOMAIN R PROVE TidySection(R[i], i, open2)
    <2>1. CASE i # s
      <3>1. R[i] = m[i] /\ TidySection(m[i], i, open)
        BY <1>1, <2>1 DEF TidyBut, ChangedAt
      <3>2. ASSUME NEW k \in DOMAIN R[i].entries
            PROVE  TidyEntry(R[i].entries[k], <<i, k>> \in open2)
        <4>1. TidyEntry(R[i].entries[k], <<i, k>> \in open)
          BY <3>1 DEF TidySection
        <4>2. <<i, k>> \in open => <<i, k>> \in open2
          BY <2>1
        <4> QED BY <4>1, <4>2 DEF TidyEntry
      <3> QED BY <3>1, <3>2 DEF TidySection
    <2>2. CASE i = s
      <3> DEFINE E == R[s].entries
      <3>1. R[s].name = m[s].name /\ R[s].comment = m[s].comment /\ e \in DOMAIN E
        BY DEF ChangedAt
      <3>2. \A k \in DOMAIN E \ {e} : /\ k \in DOMAIN m[s].entries /\ E[k] = m[s].entries[k]
                                      /\ E[k].key # E[e].key
        BY DEF ChangedAt
      <3> HIDE DEF E
      <3>3. E # <<>>
        BY <3>1
      <3>4. \A k, j \in DOMAIN E : k # j => E[k].key # E[j].key
        BY <3>1, <3>2 DEF TidyBut, DistinctKeys
      <3>5. ASSUME NEW k \in DOMAIN E PROVE TidyEntry(E[k], <<s, k>> \in open2)
        <4>1. CASE k = e
          BY <4>1 DEF E
        <4>2. CASE k # e
          <5>1. TidyEntry(E[k], <<s, k>> \in open)
            BY <3>2, <4>2 DEF TidyBut
          <5>2. <<s, k>> \in open => <<s, k>> \in open2
            BY <4>2
          <5> QED BY <5>1, <5>2 DEF TidyEntry
        <4> QED BY <4>1, <4>2
      <3>6. m[s].name = NoText => s = 1 /\ m[s].comment = NoText
        BY DEF TidyBut
      <3> QED BY <2>2, <3>1, <3>3, <3>4, <3>5, <3>6 DEF TidySection, DistinctKeys, E
    <2> QED BY <2>1, <2>2
  <1> QED BY <1>1, <1>3, <1>4 DEF Tidy

\* Another value of an entry.
WithValue(m, s, e, v) == [m EXCEPT ![s].entries[e].value = v]

\* R is m, with another value of entry e of section s.
Revalued(m, R, s, e, v) ==
    /\ ChangedAt(m, R, s, e) /\ Len(R[s].entries) = Len(m[s].entries)
    /\ R[s].entries[e].value = v
    /\ R[s].entries[e].key = m[s].entries[e].key
    /\ R[s].entries[e].comment = m[s].entries[e].comment

\* A value of an entry is replaced.
LEMMA WithValueFacts ==
    ASSUME NEW m \in Seq(FileSection), NEW s \in DOMAIN m, NEW e \in DOMAIN m[s].entries,
           DistinctKeys(m[s].entries), NEW v \in Seq(AnyLine)
    PROVE  Revalued(m, WithValue(m, s, e, v), s, e, v)
  <1> DEFINE R == WithValue(m, s, e, v)
             E == m[s].entries
             entry == [m[s].entries[e] EXCEPT !.value = v]
             E2 == [E EXCEPT ![e] = entry]
             x == [m[s] EXCEPT !.entries = E2]
  <1>1. m[s] \in FileSection /\ DOMAIN m = 1..Len(m) /\ Len(m) \in Nat
    OBVIOUS
  <1>2. E \in Seq(FileEntry)
    BY <1>1 DEF FileSection
  <1>3. E[e] \in FileEntry
    BY <1>2
  <1>4. entry \in FileEntry /\ entry.key = E[e].key /\ entry.value = v
        /\ entry.comment = E[e].comment
        /\ entry = [key |-> E[e].key, value |-> v, comment |-> E[e].comment]
    BY <1>3 DEF FileEntry
  <1>5. \A i, j \in DOMAIN E : i # j => E[i].key # E[j].key
    BY DEF DistinctKeys
  <1>6. R = [m EXCEPT ![s] = x]
    BY DEF WithValue
  <1>7. e \in DOMAIN E
    OBVIOUS
  <1> HIDE DEF E, entry
  <1>8. /\ E2 \in Seq(FileEntry) /\ Len(E2) = Len(E) /\ E2[e] = entry /\ DOMAIN E2 = DOMAIN E
        /\ \A i \in DOMAIN E2 \ {e} : E2[i] = E[i]
    BY <1>2, <1>4, <1>7
  <1> HIDE DEF E2
  <1>9. x \in FileSection /\ x.name = m[s].name /\ x.comment = m[s].comment /\ x.entries = E2
    BY <1>1, <1>8 DEF FileSection
  <1> HIDE DEF x, R
  <1>10. /\ R \in Seq(FileSection) /\ Len(R) = Len(m) /\ R[s] = x
         /\ \A i \in DOMAIN m : i # s => R[i] = m[i]
    BY <1>6, <1>9
  <1>11. \A i \in DOMAIN E2 \ {e} : i \in DOMAIN E /\ E2[i] = E[i] /\ E2[i].key # E2[e].key
    BY <1>4, <1>5, <1>7, <1>8
  <1>12. ChangedAt(m, R, s, e)
    BY <1>7, <1>8, <1>9, <1>10, <1>11 DEF ChangedAt, E
  <1>13. /\ Len(R[s].entries) = Len(m[s].entries) /\ R[s].entries[e] = entry
    BY <1>8, <1>9, <1>10 DEF E
  <1> QED BY <1>4, <1>12, <1>13 DEF R, E, Revalued

\* Where an entry goes.
PlaceOf(section, key) ==
    IF FindEntry(section, key) = 0 THEN Len(section.entries) + 1 ELSE FindEntry(section, key)

\* R is m with this entry in its place.
EntrySet(m, R, s, key, value, comment) ==
    LET e == PlaceOf(m[s], key)
        entry == [key |-> key, value |-> value, comment |-> comment]
    IN  /\ R \in Seq(FileSection) /\ Len(R) = Len(m)
        /\ FindEntry(m[s], key) = 0 => R[s].entries = Append(m[s].entries, entry)
        /\ R[s].entries[e] = entry
        /\ FindEntry(R[s], key) = e
        /\ ChangedAt(m, R, s, e)

\* What Set does to a section: an entry keeps its place, or comes behind the others.
LEMMA WithEntryFacts ==
    ASSUME NEW m \in Seq(FileSection), NEW s \in DOMAIN m, DistinctKeys(m[s].entries),
           NEW key \in LineNames, NEW value \in Seq(AnyLine), NEW comment \in LineTexts
    PROVE  EntrySet(m, WithEntry(m, s, key, value, comment), s, key, value, comment)
  <1> DEFINE R == WithEntry(m, s, key, value, comment)
             E == m[s].entries
             f == FindEntry(m[s], key)
             e == IF f = 0 THEN Len(E) + 1 ELSE f
             entry == [key |-> key, value |-> value, comment |-> comment]
             E2 == IF f = 0 THEN Append(E, entry) ELSE [E EXCEPT ![f] = entry]
  <1>14. m[s] \in FileSection /\ DOMAIN m = 1..Len(m) /\ Len(m) \in Nat
    OBVIOUS
  <1>1. E \in Seq(FileEntry) /\ Len(E) \in Nat /\ DOMAIN E = 1..Len(E)
    <2>1. E \in Seq(FileEntry)
      BY <1>14 DEF FileSection
    <2> HIDE DEF E, f, entry
    <2> QED BY <2>1
  <1>2. entry \in FileEntry /\ entry.key = key
    BY DEF FileEntry
  <1>3. R = [m EXCEPT ![s].entries = E2]
    BY DEF WithEntry
  <1>11. \A i, j \in DOMAIN E : i # j => E[i].key # E[j].key
    BY DEF DistinctKeys
  <1> HIDE DEF E
  <1>4. /\ f \in 0..Len(E)
        /\ f = 0 => \A i \in DOMAIN E : E[i].key # key
        /\ f # 0 => f \in DOMAIN E /\ E[f].key = key
    BY <1>1, EntryFound DEF E, f
  <1>5. E2 \in Seq(FileEntry)
    BY <1>1, <1>2, <1>4
  <1>6. e \in DOMAIN E2 /\ E2[e] = entry /\ DOMAIN E \subseteq DOMAIN E2
    BY <1>1, <1>2, <1>4
  <1>7. ASSUME NEW i \in DOMAIN E2 \ {e} PROVE i \in DOMAIN E /\ E2[i] = E[i] /\ E2[i].key # key
    BY <1>1, <1>2, <1>4, <1>7, <1>11
  <1> HIDE DEF E2
  <1> DEFINE x == [m[s] EXCEPT !.entries = E2]
  <1>8. x \in FileSection /\ x.name = m[s].name /\ x.comment = m[s].comment /\ x.entries = E2
    BY <1>14, <1>5 DEF FileSection
  <1>9. R = [m EXCEPT ![s] = x]
    BY <1>3
  <1> HIDE DEF x, R, e
  <1>10. /\ R \in Seq(FileSection) /\ Len(R) = Len(m) /\ R[s] = x
         /\ \A i \in DOMAIN m : i # s => R[i] = m[i]
    BY <1>8, <1>9
  <1>12. FindEntry(R[s], key) = e
    <2>1. R[s].entries = E2
      BY <1>8, <1>10
    <2> DEFINE g == FindEntry(R[s], key)
    <2>2. /\ g = 0 => \A i \in DOMAIN E2 : E2[i].key # key
          /\ g # 0 => g \in DOMAIN E2 /\ E2[g].key = key
      BY <1>5, <2>1, EntryFound
    <2> HIDE DEF g
    <2>3. g = e
      BY <1>2, <1>6, <1>7, <2>2
    <2> QED BY <2>3 DEF g
  <1>13. ChangedAt(m, R, s, e)
    BY <1>2, <1>6, <1>7, <1>8, <1>10 DEF ChangedAt, E
  <1> QED BY <1>6, <1>7, <1>8, <1>10, <1>12, <1>13
          DEF R, E, E2, e, f, entry, PlaceOf, EntrySet

\* The types of what Load has.
ReadType == [sections : Seq(FileSection), current : Nat, pending : LineTexts, pem : Nat]

\* A line of a key is added to it.
LEMMA PemLineReads ==
    ASSUME NEW v \in Seq(AnyLine), v # <<>>, Unended(v), NEW line \in AnyLine
    PROVE  LET w == Append(v, line)
           IN  /\ w \in Seq(AnyLine) /\ w # <<>> /\ w[1] = v[1]
               /\ IF line.kind = "end" THEN HasEnd(w) ELSE Unended(w)
  <1> DEFINE w == Append(v, line)
             n == Len(w)
  <1>1. /\ w \in Seq(AnyLine) /\ n = Len(v) + 1 /\ Len(v) \in Nat /\ Len(v) >= 1
        /\ w[n] = line /\ \A k \in 1..(n - 1) : w[k] = v[k]
    OBVIOUS
  <1>2. w[1] = v[1] /\ w # <<>> /\ n \in 2..n
    BY <1>1
  <1> HIDE DEF w
  <1>3. w[1].kind = "pem" /\ \A k \in 1..(n - 1) : w[k].kind # "end"
    BY <1>1, <1>2 DEF Unended
  <1>4. CASE line.kind = "end"
    <2>1. HasEnd(w)
      <3>1. n \in 2..Len(w) /\ w[n].kind = "end"
        BY <1>1, <1>2, <1>4
      <3> QED BY <1>3, <3>1, Zenon DEF HasEnd
    <2> QED BY <1>1, <1>2, <1>4, <2>1 DEF w
  <1>5. CASE line.kind # "end"
    <2>1. \A k \in 1..Len(w) : w[k].kind # "end"
      <3>1. \A k \in 1..Len(w) : k = n \/ k \in 1..(n - 1)
        BY <1>1
      <3> QED BY <1>1, <1>3, <1>5, <3>1
    <2>2. Unended(w)
      BY <1>3, <2>1 DEF Unended
    <2> QED BY <1>1, <1>2, <1>5, <2>2 DEF w
  <1> QED BY <1>4, <1>5

\* What is read within a key.
LEMMA PemLineKeeps ==
    ASSUME NEW r, ReadInv(r), NEW line \in AnyLine, r.pem # 0
    PROVE  ReadInv(ReadPemLine(r, line))
  <1> DEFINE m == r.sections
             s == r.current
             e == r.pem
             v == m[s].entries[e].value
             w == Append(v, line)
             R == WithValue(m, s, e, w)
             q == ReadPemLine(r, line)
  <1>1. /\ m \in Seq(FileSection) /\ Tidy(m, {<<s, e>>}) /\ s \in DOMAIN m
        /\ e \in DOMAIN m[s].entries /\ Unended(v) /\ r \in ReadType
    BY DEF ReadInv, ReadType
  <1>2. m[s] \in FileSection /\ m[s].entries \in Seq(FileEntry) /\ m[s].entries[e] \in FileEntry
        /\ v \in Seq(AnyLine)
    <2>1. m[s] \in FileSection
      BY <1>1
    <2>2. m[s].entries \in Seq(FileEntry)
      BY <2>1 DEF FileSection
    <2>3. m[s].entries[e] \in FileEntry
      BY <1>1, <2>2
    <2> QED BY <2>1, <2>2, <2>3 DEF FileEntry
  <1>3. TidySection(m[s], s, {<<s, e>>})
    BY Zenon, <1>1 DEF Tidy
  <1>4. v # <<>> /\ v[1].name = m[s].entries[e].key
    BY Zenon, <1>1, <1>3 DEF TidySection, TidyEntry
  <1>5. /\ w \in Seq(AnyLine) /\ w # <<>> /\ w[1] = v[1]
        /\ IF line.kind = "end" THEN HasEnd(w) ELSE Unended(w)
    <2> HIDE DEF v
    <2> QED BY <1>1, <1>2, <1>4, PemLineReads
  <1>6. DistinctKeys(m[s].entries)
    BY <1>3 DEF TidySection
  <1>7. /\ ChangedAt(m, R, s, e) /\ R[s].entries[e].value = w
        /\ R[s].entries[e].key = m[s].entries[e].key
    <2>1. m \in Seq(FileSection) /\ s \in DOMAIN m /\ e \in DOMAIN m[s].entries
      BY SMTT(30), <1>1
    <2>2. w \in Seq(AnyLine)
      BY Zenon, <1>5
    <2> HIDE DEF m, s, e, w
    <2> QED BY <2>1, <2>2, <1>6, WithValueFacts DEF Revalued
  <1>8. q = [r EXCEPT !.sections = R, !.pem = IF line.kind = "end" THEN 0 ELSE e]
    BY DEF ReadPemLine, WithValue
  <1> HIDE DEF R, w, v, q
  <1>9. TidyBut(m, s, e, {<<s, e>>})
    BY <1>1, TidyIsTidyBut
  <1>10. CASE line.kind = "end"
    <2>1. TidyEntry(R[s].entries[e], <<s, e>> \in {})
      BY <1>4, <1>5, <1>7, <1>10 DEF TidyEntry
    <2>2. Tidy(R, {})
      <3> HIDE DEF m, s, e
      <3> QED BY <1>7, <1>9, <2>1, TidyChanged
    <2>3. /\ q.sections = R /\ q.current = s /\ q.pending = r.pending /\ q.pem = 0
          /\ q \in ReadType
      BY <1>1, <1>7, <1>8, <1>10 DEF ReadType, ChangedAt
    <2>4. s =< Len(R) /\ s # 0
      BY <1>1, <1>7 DEF ChangedAt
    <2> QED BY <2>2, <2>3, <2>4 DEF ReadInv, ReadType, q
  <1>11. CASE line.kind # "end"
    <2>1. TidyEntry(R[s].entries[e], <<s, e>> \in {<<s, e>>})
      BY <1>4, <1>5, <1>7, <1>11 DEF TidyEntry
    <2>2. Tidy(R, {<<s, e>>})
      <3> HIDE DEF m, s, e
      <3> QED BY <1>7, <1>9, <2>1, TidyChanged
    <2>3. /\ q.sections = R /\ q.current = s /\ q.pending = r.pending /\ q.pem = e
          /\ q \in ReadType
      BY <1>1, <1>7, <1>8, <1>11 DEF ReadType, ChangedAt
    <2>4. s =< Len(R) /\ s # 0 /\ e \in DOMAIN R[s].entries
      BY <1>1, <1>7 DEF ChangedAt
    <2> QED BY <1>5, <1>7, <1>11, <2>2, <2>3, <2>4 DEF ReadInv, ReadType, q
  <1> QED BY <1>10, <1>11

\* What is read of a header.
LEMMA HeaderKeeps ==
    ASSUME NEW r, ReadInv(r), r.pem = 0, NEW name \in LineNames, name # NoText
    PROVE  ReadInv(ReadHeader(r, name))
  <1> DEFINE m == r.sections
             s == FindSection(m, name)
             x == [name |-> name, comment |-> r.pending, entries |-> <<>>]
             R == Append(m, x)
             q == ReadHeader(r, name)
  <1>1. m \in Seq(FileSection) /\ Tidy(m, {}) /\ r \in ReadType /\ Len(m) \in Nat
    BY DEF ReadInv, ReadType
  <1>2. /\ s \in 0..Len(m)
        /\ s = 0 => \A i \in DOMAIN m : m[i].name # name
    <2> HIDE DEF m
    <2> QED BY <1>1, SectionFound
  <1>3. NoText \in LineTexts
    BY DEF LineTexts
  <1>4. CASE s # 0
    <2>2. q = [r EXCEPT !.current = s, !.pending = NoText]
      BY <1>4 DEF ReadHeader
    <2> HIDE DEF s, q
    <2>1. /\ q.sections = m /\ q.current = s /\ q.pending = NoText /\ q.pem = 0 /\ q \in ReadType
      <3>1. s \in Nat
        BY <1>1, <1>2
      <3> HIDE DEF m
      <3>2. q \in ReadType
        BY <1>1, <1>3, <2>2, <3>1 DEF ReadType
      <3> QED BY <1>1, <2>2, <3>2 DEF ReadType, m
    <2> QED BY <1>1, <1>2, <1>4, <2>1 DEF ReadInv, ReadType, q
  <1>5. CASE s = 0
    <2>1. x \in FileSection
      BY <1>1 DEF FileSection, ReadType
    <2>2. R \in Seq(FileSection) /\ Len(R) = Len(m) + 1
      BY <1>1, <2>1
    <2>3. R[Len(R)] = x /\ \A i \in DOMAIN R \ {Len(R)} : i \in DOMAIN m /\ R[i] = m[i]
      BY <1>1, <2>1
    <2>4. /\ q.sections = R /\ q.current = Len(R) /\ q.pending = NoText /\ q.pem = 0
          /\ q \in ReadType
      <3>1. q = [r EXCEPT !.sections = R, !.current = Len(m) + 1, !.pending = NoText]
        BY <1>5 DEF ReadHeader
      <3> HIDE DEF q, R
      <3>2. Len(m) + 1 \in Nat /\ Len(R) = Len(m) + 1 /\ R \in Seq(FileSection)
        BY <1>1, <2>2
      <3> HIDE DEF m
      <3>3. q \in ReadType
        BY <1>1, <1>3, <3>1, <3>2 DEF ReadType
      <3> QED BY <1>1, <3>1, <3>2, <3>3 DEF ReadType
    <2>5. TidySection(x, Len(R), {})
      BY DEF TidySection, DistinctKeys
    <2>6. x.name = name
      OBVIOUS
    <2> HIDE DEF R, q, x
    <2>7. \A i \in DOMAIN R : TidySection(R[i], i, {})
      BY <1>1, <2>3, <2>5 DEF Tidy
    <2>8. \A i, j \in DOMAIN R : i # j => R[i].name # R[j].name
      BY <1>1, <1>2, <1>5, <2>3, <2>6 DEF Tidy
    <2>9. Tidy(R, {})
      BY <2>2, <2>7, <2>8 DEF Tidy
    <2> QED BY <1>1, <2>2, <2>4, <2>9 DEF ReadInv, ReadType, q
  <1> QED BY <1>4, <1>5

\* What is read of an entry.
LEMMA EntryKeeps ==
    ASSUME NEW r, ReadInv(r), r.pem = 0,
           NEW line \in AnyLine, line.kind \in {"entry", "pem"}
    PROVE  ReadInv(ReadEntry(r, line))
  <1> DEFINE default == [name |-> NoText, comment |-> NoText, entries |-> <<>>]
             m == IF r.current = 0 THEN Append(r.sections, default) ELSE r.sections
             s == IF r.current = 0 THEN Len(r.sections) + 1 ELSE r.current
             key == line.name
             value == <<line>>
             comment == r.pending
             R == WithEntry(m, s, key, value, comment)
             e == PlaceOf(m[s], key)
             q == ReadEntry(r, line)
             open == IF line.kind = "pem" THEN {<<s, e>>} ELSE {}
  <1>1. r.sections \in Seq(FileSection) /\ Tidy(r.sections, {}) /\ r \in ReadType
    BY DEF ReadInv, ReadType
  <1>2. m \in Seq(FileSection) /\ s \in DOMAIN m /\ s \in Nat \ {0}
        /\ \A o : TidyBut(m, s, o, {})
    <2>1. CASE r.current = 0
      <3>1. r.sections = <<>>
        BY <2>1 DEF ReadInv
      <3>2. default \in FileSection
        BY DEF FileSection, LineNames, LineTexts
      <3>3. m = <<default>> /\ s = 1
        BY <2>1, <3>1
      <3>4. /\ m \in Seq(FileSection) /\ DOMAIN m = {1} /\ m[1] = default
        <4> HIDE DEF default, m
        <4> QED BY <3>2, <3>3
      <3>5. default.name = NoText /\ default.comment = NoText /\ default.entries = <<>>
            /\ DOMAIN default.entries = {}
        OBVIOUS
      <3> HIDE DEF m, s, default
      <3>6. \A o : TidyBut(m, s, o, {})
        BY <3>3, <3>4, <3>5 DEF TidyBut, DistinctKeys
      <3> QED BY <3>3, <3>4, <3>6
    <2>2. CASE r.current # 0
      <3>1. m = r.sections /\ s = r.current /\ s \in DOMAIN m /\ s \in Nat \ {0}
        BY <1>1, <2>2 DEF ReadInv, ReadType
      <3> HIDE DEF m, s
      <3> QED BY <1>1, <3>1, TidyIsTidyBut
    <2> QED BY <2>1, <2>2
  <1>3. key \in LineNames /\ <<line>> \in Seq(AnyLine) /\ r.pending \in LineTexts
    BY <1>1 DEF AnyLine, ReadType
  <1>4. q = [r EXCEPT !.sections = R, !.current = s, !.pending = NoText,
                      !.pem = IF line.kind = "pem" THEN FindEntry(R[s], key) ELSE 0]
    BY DEF ReadEntry
  <1> HIDE DEF m, s, q
  <1>5. DistinctKeys(m[s].entries)
    BY SMTT(30), <1>2 DEF TidyBut
  <1>6. /\ R \in Seq(FileSection) /\ Len(R) = Len(m)
        /\ R[s].entries[e] = [key |-> key, value |-> <<line>>, comment |-> r.pending]
        /\ e \in DOMAIN R[s].entries /\ FindEntry(R[s], key) = e /\ ChangedAt(m, R, s, e)
    <2>1. key \in LineNames /\ value \in Seq(AnyLine) /\ comment \in LineTexts
      BY <1>3
    <2>2. m \in Seq(FileSection) /\ s \in DOMAIN m
      BY <1>2
    <2> HIDE DEF key, value, comment
    <2>3. /\ R \in Seq(FileSection) /\ Len(R) = Len(m)
          /\ R[s].entries[e] = [key |-> key, value |-> value, comment |-> comment]
          /\ FindEntry(R[s], key) = e /\ ChangedAt(m, R, s, e)
      <3>1. EntrySet(m, R, s, key, value, comment)
        BY <2>1, <2>2, <1>5, WithEntryFacts
      <3> HIDE DEF R, m, s
      <3> QED BY <3>1 DEF EntrySet
    <2> QED BY <2>3 DEF ChangedAt, value, comment
  <1> HIDE DEF R
  <1>7. R[s].entries[e].value = <<line>> /\ R[s].entries[e].key = key
    BY <1>6
  <1>8. e \in Nat \ {0}
    <2>1. R[s] \in FileSection
      BY <1>2, <1>6
    <2>2. R[s].entries \in Seq(FileEntry)
      BY <2>1 DEF FileSection
    <2> HIDE DEF e
    <2> QED BY <1>6, <2>2
  <1> HIDE DEF e
  <1>9. TidyEntry(R[s].entries[e], <<s, e>> \in open)
    <2>1. <<line>> # <<>> /\ <<line>>[1] = line /\ Len(<<line>>) = 1
      OBVIOUS
    <2>2. CASE line.kind = "entry"
      BY <1>7, <2>1, <2>2 DEF TidyEntry, Plain
    <2>3. CASE line.kind = "pem"
      <3>1. Unended(<<line>>)
        BY <2>1, <2>3 DEF Unended
      <3> QED BY <1>7, <2>1, <2>3, <3>1 DEF TidyEntry
    <2> QED BY <2>2, <2>3
  <1>10. Tidy(R, open)
    <2>1. {} \ {<<s, e>>} \subseteq open
      OBVIOUS
    <2> HIDE DEF open
    <2> QED BY <1>2, <1>6, <1>9, <2>1, TidyChanged
  <1>11. /\ q.sections = R /\ q.current = s /\ q.pending = NoText
         /\ q.pem = (IF line.kind = "pem" THEN e ELSE 0) /\ q \in ReadType
    BY <1>1, <1>2, <1>4, <1>6, <1>8 DEF ReadType, LineTexts
  <1>12. s =< Len(R) /\ s # 0
    BY <1>2, <1>6
  <1>13. line.kind = "pem" => Unended(R[s].entries[e].value)
    BY <1>7 DEF Unended
  <1> QED BY <1>6, <1>8, <1>10, <1>11, <1>12, <1>13 DEF ReadInv, ReadType, q, open

\* Every line keeps it.
LEMMA ReadLineKeeps ==
    ASSUME NEW r, ReadInv(r), NEW line \in AnyLine, IsNamed(line)
    PROVE  ReadInv(ReadLine(r, line))
  <1>1. CASE r.pem # 0
    BY <1>1, PemLineKeeps DEF ReadLine
  <1>2. CASE r.pem = 0 /\ line.kind = "comment"
    <2>1. ReadLine(r, line) = [r EXCEPT !.pending = line.text]
      BY <1>2 DEF ReadLine
    <2> QED BY <1>2, <2>1 DEF ReadInv, AnyLine, LineTexts
  <1>3. CASE r.pem = 0 /\ line.kind = "header"
    <2>1. ReadLine(r, line) = ReadHeader(r, line.name)
      BY <1>3 DEF ReadLine
    <2>2. line.name \in LineNames /\ line.name # NoText
      BY <1>3 DEF AnyLine, IsNamed
    <2> QED BY <1>3, <2>1, <2>2, HeaderKeeps
  <1>4. CASE r.pem = 0 /\ line.kind \in {"entry", "pem"}
    <2>1. ReadLine(r, line) = ReadEntry(r, line)
      BY <1>4 DEF ReadLine
    <2> QED BY <1>4, <2>1, EntryKeeps
  <1>5. CASE r.pem = 0 /\ line.kind \notin {"comment", "header", "entry", "pem"}
    BY <1>5 DEF ReadLine
  <1> QED BY <1>1, <1>2, <1>3, <1>4, <1>5

-----------------------------------------------------------------------------
(* What Save writes: ConfigFile *)

\* The texts of the entries of a section, and of the sections.
EntryTexts(section) == [e \in DOMAIN section.entries |-> EntryLines(section.entries[e])]
HeaderLines(section) == IF section.name = NoText THEN <<>> ELSE <<Header(section.name)>>
BlankLines(m, s) == IF s < Len(m) THEN <<Blank>> ELSE <<>>
SectionTexts(m) == [s \in DOMAIN m |-> SectionLines(m[s]) \o BlankLines(m, s)]

\* What Save writes behind entry e of section s, and behind section s.
AfterSection(m, s) == Behind(SectionTexts(m), s)
After(m, s, e) == Behind(EntryTexts(m[s]), e) \o (BlankLines(m, s) \o AfterSection(m, s))

\* The lines that Save writes are lines.
LEMMA LinesWritten ==
    ASSUME NEW m \in Seq(FileSection), NEW s \in DOMAIN m
    PROVE  /\ CommentLines(m[s].comment) \in Seq(AnyLine)
           /\ HeaderLines(m[s]) \in Seq(AnyLine)
           /\ BlankLines(m, s) \in Seq(AnyLine)
           /\ EntryTexts(m[s]) \in Seq(Seq(AnyLine))
           /\ Len(EntryTexts(m[s])) = Len(m[s].entries)
           /\ \A e \in DOMAIN m[s].entries :
                 /\ EntryTexts(m[s])[e] = EntryLines(m[s].entries[e])
                 /\ m[s].entries[e].value \in Seq(AnyLine)
                 /\ CommentLines(m[s].entries[e].comment) \in Seq(AnyLine)
  <1> DEFINE x == m[s]
             E == x.entries
  <1>1. x \in FileSection
    OBVIOUS
  <1> HIDE DEF x
  <1>2. x.name \in LineNames /\ x.comment \in LineTexts /\ E \in Seq(FileEntry)
    BY <1>1 DEF FileSection
  <1> HIDE DEF E
  <1>3. ASSUME NEW c \in LineTexts PROVE CommentLines(c) \in Seq(AnyLine)
    <2>1. Comment(c) \in AnyLine
      BY <1>3 DEF Comment, Line, AnyLine, LineKinds, LineNames
    <2> QED BY <2>1 DEF CommentLines
  <1>4. ASSUME NEW n \in LineNames PROVE <<Header(n)>> \in Seq(AnyLine)
    BY <1>4 DEF Header, Line, AnyLine, LineKinds, LineNames, LineTexts
  <1>5. <<Blank>> \in Seq(AnyLine)
    BY DEF Blank, Line, AnyLine, LineKinds, LineNames, LineTexts
  <1>6. ASSUME NEW e \in DOMAIN E
        PROVE  /\ E[e].value \in Seq(AnyLine) /\ CommentLines(E[e].comment) \in Seq(AnyLine)
               /\ EntryLines(E[e]) \in Seq(AnyLine)
    <2>1. E[e] \in FileEntry
      BY <1>2
    <2>2. E[e].value \in Seq(AnyLine) /\ E[e].comment \in LineTexts
      BY <2>1 DEF FileEntry
    <2>3. CommentLines(E[e].comment) \in Seq(AnyLine)
      BY <1>3, <2>2
    <2> QED BY <2>2, <2>3 DEF EntryLines
  <1> DEFINE F == EntryTexts(x)
  <1>7. F = [e \in DOMAIN E |-> EntryLines(E[e])]
    BY DEF EntryTexts, E
  <1> HIDE DEF F
  <1>8. DOMAIN E = 1..Len(E) /\ Len(E) \in Nat
    BY <1>2
  <1>9. F \in Seq(Seq(AnyLine)) /\ Len(F) = Len(E)
    BY <1>6, <1>7, <1>8
  <1>10. HeaderLines(x) \in Seq(AnyLine)
    BY <1>2, <1>4 DEF HeaderLines
  <1>11. BlankLines(m, s) \in Seq(AnyLine)
    BY <1>5 DEF BlankLines
  <1>12. CommentLines(x.comment) \in Seq(AnyLine)
    BY <1>2, <1>3
  <1> QED BY <1>6, <1>7, <1>9, <1>10, <1>11, <1>12 DEF x, E, F

\* A section is its comment, its header and its entries.
LEMMA SectionTextsWritten ==
    ASSUME NEW m \in Seq(FileSection)
    PROVE  /\ SectionTexts(m) \in Seq(Seq(AnyLine)) /\ Len(SectionTexts(m)) = Len(m)
           /\ \A s \in DOMAIN m : SectionTexts(m)[s] = SectionLines(m[s]) \o BlankLines(m, s)
           /\ \A s \in DOMAIN m :
                 /\ SectionLines(m[s]) \in Seq(AnyLine)
                 /\ SectionLines(m[s]) = (CommentLines(m[s].comment) \o HeaderLines(m[s]))
                                            \o Behind(EntryTexts(m[s]), 0)
           /\ Text(m) = AfterSection(m, 0)
  <1>1. DOMAIN m = 1..Len(m) /\ Len(m) \in Nat
    OBVIOUS
  <1>2. ASSUME NEW s \in DOMAIN m
        PROVE  /\ SectionLines(m[s]) \in Seq(AnyLine)
               /\ SectionLines(m[s]) = (CommentLines(m[s].comment) \o HeaderLines(m[s]))
                                            \o Behind(EntryTexts(m[s]), 0)
               /\ SectionLines(m[s]) \o BlankLines(m, s) \in Seq(AnyLine)
    <2> DEFINE c == CommentLines(m[s].comment)
               h == HeaderLines(m[s])
               b == Behind(EntryTexts(m[s]), 0)
    <2>1. c \in Seq(AnyLine) /\ h \in Seq(AnyLine) /\ EntryTexts(m[s]) \in Seq(Seq(AnyLine))
          /\ BlankLines(m, s) \in Seq(AnyLine)
      BY LinesWritten
    <2>2. b = FlattenSeq(EntryTexts(m[s])) /\ b \in Seq(AnyLine)
      BY <2>1, BehindSteps, FlattenFirst
    <2>3. SectionLines(m[s]) = (c \o h) \o b
      BY <2>2 DEF SectionLines, HeaderLines, EntryTexts
    <2> HIDE DEF c, h, b
    <2>4. (c \o h) \o b \in Seq(AnyLine)
      BY <2>1, <2>2
    <2>5. SectionLines(m[s]) \in Seq(AnyLine)
      BY <2>3, <2>4
    <2>6. SectionLines(m[s]) \o BlankLines(m, s) \in Seq(AnyLine)
      BY <2>1, <2>5
    <2> QED BY <2>3, <2>5, <2>6 DEF c, h, b
  <1> DEFINE F == SectionTexts(m)
  <1>3. F = [s \in DOMAIN m |-> SectionLines(m[s]) \o BlankLines(m, s)]
    BY DEF SectionTexts
  <1>4. Text(m) = FlattenSeq(F)
    BY DEF Text, SectionTexts, BlankLines
  <1> HIDE DEF F
  <1>5. F \in Seq(Seq(AnyLine)) /\ Len(F) = Len(m)
    BY <1>1, <1>2, <1>3
  <1>6. Text(m) = AfterSection(m, 0)
    BY <1>4, <1>5, BehindSteps DEF AfterSection, F
  <1> QED BY <1>2, <1>3, <1>5, <1>6 DEF F

\* What is behind an entry: the next one, the next section, or nothing.
LEMMA AfterSteps ==
    ASSUME NEW m \in Seq(FileSection)
    PROVE  /\ \A s \in 0..Len(m) : AfterSection(m, s) \in Seq(AnyLine)
           /\ AfterSection(m, Len(m)) = <<>>
           /\ \A s \in DOMAIN m : \A e \in 0..Len(m[s].entries) : After(m, s, e) \in Seq(AnyLine)
           /\ \A s \in DOMAIN m : \A e \in 0..(Len(m[s].entries) - 1) :
                 After(m, s, e) = EntryLines(m[s].entries[e + 1]) \o After(m, s, e + 1)
           /\ \A s \in DOMAIN m :
                 After(m, s, Len(m[s].entries)) = BlankLines(m, s) \o AfterSection(m, s)
           /\ \A s \in 0..(Len(m) - 1) :
                 AfterSection(m, s) = (CommentLines(m[s + 1].comment) \o HeaderLines(m[s + 1]))
                                          \o After(m, s + 1, 0)
  <1>1. DOMAIN m = 1..Len(m) /\ Len(m) \in Nat
    OBVIOUS
  <1> DEFINE F == SectionTexts(m)
  <1>2. /\ F \in Seq(Seq(AnyLine)) /\ Len(F) = Len(m)
        /\ \A s \in DOMAIN m : F[s] = SectionLines(m[s]) \o BlankLines(m, s)
    BY SectionTextsWritten
  <1> HIDE DEF F
  <1>3. /\ \A s \in 0..Len(m) : AfterSection(m, s) \in Seq(AnyLine)
        /\ AfterSection(m, Len(m)) = <<>>
        /\ \A s \in 0..(Len(m) - 1) : AfterSection(m, s) = F[s + 1] \o AfterSection(m, s + 1)
    BY <1>2, BehindSteps DEF AfterSection, F
  <1>4. ASSUME NEW s \in DOMAIN m
        PROVE  /\ \A e \in 0..Len(m[s].entries) : After(m, s, e) \in Seq(AnyLine)
               /\ \A e \in 0..(Len(m[s].entries) - 1) :
                     After(m, s, e) = EntryLines(m[s].entries[e + 1]) \o After(m, s, e + 1)
               /\ After(m, s, Len(m[s].entries)) = BlankLines(m, s) \o AfterSection(m, s)
               /\ Behind(EntryTexts(m[s]), 0) \in Seq(AnyLine)
    <2> DEFINE G == EntryTexts(m[s])
               n == Len(m[s].entries)
               b == BlankLines(m, s) \o AfterSection(m, s)
    <2>1. /\ G \in Seq(Seq(AnyLine)) /\ Len(G) = n
          /\ BlankLines(m, s) \in Seq(AnyLine)
          /\ \A e \in DOMAIN m[s].entries : G[e] = EntryLines(m[s].entries[e])
      BY LinesWritten
    <2>2. m[s].entries \in Seq(FileEntry)
      <3>1. m[s] \in FileSection
        OBVIOUS
      <3> QED BY <3>1 DEF FileSection
    <2>3. n \in Nat /\ DOMAIN m[s].entries = 1..n
      BY <2>2
    <2>4. b \in Seq(AnyLine)
      <3>1. AfterSection(m, s) \in Seq(AnyLine)
        BY <1>1, <1>3
      <3> QED BY <2>1, <3>1
    <2>5. \A e : After(m, s, e) = Behind(G, e) \o b
      BY DEF After
    <2> HIDE DEF G, n, b
    <2>6. /\ Behind(G, n) = <<>>
          /\ \A e \in 0..n : Behind(G, e) \in Seq(AnyLine)
          /\ \A e \in 0..(n - 1) : Behind(G, e) = G[e + 1] \o Behind(G, e + 1)
      BY <2>1, BehindSteps
    <2>7. After(m, s, n) = b
      <3>1. After(m, s, n) = <<>> \o b
        BY <2>5, <2>6
      <3> QED BY <2>4, <3>1
    <2>8. ASSUME NEW e \in 0..(n - 1) PROVE After(m, s, e) = G[e + 1] \o After(m, s, e + 1)
      <3>1. e + 1 \in 1..n /\ e + 1 \in 0..n
        BY <2>3
      <3>2. G[e + 1] \in Seq(AnyLine) /\ Behind(G, e + 1) \in Seq(AnyLine)
        BY <2>1, <2>6, <3>1
      <3>3. (G[e + 1] \o Behind(G, e + 1)) \o b = G[e + 1] \o (Behind(G, e + 1) \o b)
        <4>1. \A u, v, w \in Seq(AnyLine) : (u \o v) \o w = u \o (v \o w)
          BY SMTT(30), ConcatAssociative
        <4> QED BY <2>4, <3>2, <4>1
      <3> QED BY <2>5, <2>6, <3>3
    <2>9. ASSUME NEW e \in 0..n PROVE After(m, s, e) \in Seq(AnyLine)
      <3>1. Behind(G, e) \in Seq(AnyLine) /\ After(m, s, e) = Behind(G, e) \o b
        BY <2>5, <2>6
      <3> QED BY <2>4, <3>1
    <2>10. ASSUME NEW e \in 0..(n - 1) PROVE G[e + 1] = EntryLines(m[s].entries[e + 1])
      <3>1. e + 1 \in DOMAIN m[s].entries
        BY <2>3
      <3> QED BY SMTT(30), <2>1, <3>1
    <2>11. 0 \in 0..n
      BY <2>3
    <2> QED BY <2>3, <2>6, <2>7, <2>8, <2>9, <2>10, <2>11 DEF n, b, G
  <1>5. ASSUME NEW s \in 0..(Len(m) - 1)
        PROVE  AfterSection(m, s) = (CommentLines(m[s + 1].comment) \o HeaderLines(m[s + 1]))
                                          \o After(m, s + 1, 0)
    <2> DEFINE t == s + 1
               a == CommentLines(m[t].comment) \o HeaderLines(m[t])
               b == Behind(EntryTexts(m[t]), 0)
               c == BlankLines(m, t)
               d == AfterSection(m, t)
    <2>1. t \in DOMAIN m /\ t \in 0..Len(m)
      BY <1>1
    <2>2. a \in Seq(AnyLine) /\ b \in Seq(AnyLine) /\ c \in Seq(AnyLine) /\ d \in Seq(AnyLine)
      <3> HIDE DEF t
      <3>1. CommentLines(m[t].comment) \in Seq(AnyLine) /\ HeaderLines(m[t]) \in Seq(AnyLine)
            /\ c \in Seq(AnyLine)
        BY <2>1, LinesWritten
      <3>2. a \in Seq(AnyLine)
        BY <3>1
      <3> QED BY <1>3, <1>4, <2>1, <3>1, <3>2
    <2>3. AfterSection(m, s) = F[t] \o d
      BY <1>3
    <2> HIDE DEF t
    <2>4. F[t] = (a \o b) \o c
      BY <1>2, <2>1, SectionTextsWritten
    <2>5. After(m, t, 0) = b \o (c \o d)
      BY DEF After
    <2> HIDE DEF a, b, c, d
    <2>6. ((a \o b) \o c) \o d = a \o (b \o (c \o d))
      <3>1. \A u, v, w \in Seq(AnyLine) : (u \o v) \o w = u \o (v \o w)
        BY ConcatAssociative
      <3>2. \A u, v \in Seq(AnyLine) : u \o v \in Seq(AnyLine)
        BY ConcatProperties
      <3>3. a \o b \in Seq(AnyLine) /\ c \o d \in Seq(AnyLine)
        BY <2>2, <3>2
      <3>4. ((a \o b) \o c) \o d = (a \o b) \o (c \o d)
        <4> DEFINE ab == a \o b
        <4>1. ab \in Seq(AnyLine)
          BY <3>3
        <4> HIDE DEF ab
        <4>2. (ab \o c) \o d = ab \o (c \o d)
          BY <2>2, <3>1, <4>1
        <4> QED BY <4>2 DEF ab
      <3>5. (a \o b) \o (c \o d) = a \o (b \o (c \o d))
        <4> DEFINE cd == c \o d
        <4>1. cd \in Seq(AnyLine)
          BY <3>3
        <4> HIDE DEF cd
        <4>2. (a \o b) \o cd = a \o (b \o cd)
          BY <2>2, <3>1, <4>1
        <4> QED BY <4>2 DEF cd
      <3> QED BY <3>4, <3>5
    <2> QED BY <2>3, <2>4, <2>5, <2>6 DEF t, a
  <1> QED BY <1>3, <1>4, <1>5

\* The first of joined sequences is read first.
LEMMA FirstOfJoined ==
    ASSUME NEW T, NEW a \in Seq(T), NEW b \in Seq(T), a # <<>>
    PROVE  Head(a \o b) = a[1] /\ Tail(a \o b) = Tail(a) \o b /\ a \o b # <<>>
  <1>1. Len(a) \in Nat /\ Len(a) >= 1 /\ Len(b) \in Nat
    OBVIOUS
  <1>2. /\ a \o b \in Seq(T) /\ Len(a \o b) = Len(a) + Len(b)
        /\ \A i \in 1..(Len(a) + Len(b)) : (a \o b)[i] = IF i =< Len(a) THEN a[i] ELSE b[i - Len(a)]
    OBVIOUS
  <1>3. Head(a \o b) = a[1] /\ a \o b # <<>>
    BY <1>1, <1>2
  <1> DEFINE c == Tail(a \o b)
             d == Tail(a) \o b
             t == Tail(a)
  <1>4. /\ t \in Seq(T) /\ Len(t) = Len(a) - 1
        /\ \A i \in 1..(Len(a) - 1) : t[i] = a[i + 1]
    OBVIOUS
  <1>5. /\ c \in Seq(T) /\ Len(c) = Len(a) + Len(b) - 1
        /\ \A i \in 1..(Len(a) + Len(b) - 1) : c[i] = (a \o b)[i + 1]
    <2> DEFINE ab == a \o b
    <2> HIDE DEF ab
    <2> QED BY <1>1, <1>2, <1>3 DEF ab
  <1>6. /\ d \in Seq(T) /\ Len(d) = Len(a) + Len(b) - 1
        /\ \A i \in 1..(Len(a) + Len(b) - 1) :
              d[i] = IF i =< Len(a) - 1 THEN t[i] ELSE b[i - (Len(a) - 1)]
    <2> HIDE DEF t
    <2> QED BY <1>1, <1>4
  <1>7. ASSUME NEW i \in 1..(Len(a) + Len(b) - 1) PROVE c[i] = d[i]
    <2>1. i + 1 \in 1..(Len(a) + Len(b))
      BY <1>1
    <2>2. c[i] = IF i + 1 =< Len(a) THEN a[i + 1] ELSE b[(i + 1) - Len(a)]
      BY <1>2, <1>5, <2>1
    <2> HIDE DEF c, d, t
    <2> QED BY <1>1, <1>4, <1>6, <2>2
  <1>8. c = d
    <2> HIDE DEF c, d
    <2> QED BY <1>5, <1>6, <1>7, SeqEqual
  <1> QED BY <1>3, <1>8

\* So is one line.
LEMMA LineOfJoined ==
    ASSUME NEW T, NEW x \in T, NEW b \in Seq(T)
    PROVE  Head(<<x>> \o b) = x /\ Tail(<<x>> \o b) = b /\ <<x>> \o b # <<>>
  <1>1. <<x>> \in Seq(T) /\ <<x>> # <<>> /\ Tail(<<x>>) = <<>>
    OBVIOUS
  <1>2. <<>> \o b = b
    OBVIOUS
  <1> DEFINE a == <<x>>
  <1>3. a[1] = x
    OBVIOUS
  <1> HIDE DEF a
  <1>4. Head(a \o b) = a[1] /\ Tail(a \o b) = Tail(a) \o b /\ a \o b # <<>>
    BY <1>1, FirstOfJoined DEF a
  <1> QED BY <1>1, <1>2, <1>3, <1>4 DEF a

-----------------------------------------------------------------------------
(* Load reads what Save has written: ConfigFile *)

\* Settings where only the last entry of all may lack its last line, and ends with one
\* that is not blank.
LastPlace(m) == <<Len(m), Len(m[Len(m)].entries)>>
SolidEnds(m) ==
    \A s \in DOMAIN m : \A e \in DOMAIN m[s].entries :
        LET v == m[s].entries[e].value IN Unended(v) => v[Len(v)].kind # "blank"
Settled(m) == Tidy(m, {LastPlace(m)}) /\ SolidEnds(m)

\* U is what is read of M up to entry e of section s, whose value so far is v.
IsUpto(U, M, s, e, v) ==
    /\ U \in Seq(FileSection) /\ Len(U) = s /\ s =< Len(M)
    /\ \A j \in 1..(s - 1) : U[j] = M[j]
    /\ s = 0 => e = 0
    /\ s # 0 => /\ U[s].name = M[s].name /\ U[s].comment = M[s].comment
                /\ Len(U[s].entries) = e /\ e =< Len(M[s].entries)
                /\ \A i \in 1..(e - 1) : U[s].entries[i] = M[s].entries[i]
                /\ e # 0 => /\ U[s].entries[e].key = M[s].entries[e].key
                            /\ U[s].entries[e].comment = M[s].entries[e].comment
                            /\ U[s].entries[e].value = v

\* The value of entry e of section s, or that of no entry.
Val(M, s, e) == IF e = 0 THEN <<>> ELSE M[s].entries[e].value

\* A value without the end of line behind it.
LEMMA WithoutEndFacts ==
    ASSUME NEW v \in Seq(AnyLine), v # <<>>
    PROVE  /\ WithoutEnd(v) \in Seq(AnyLine) /\ IsPrefix(WithoutEnd(v), v)
           /\ v[Len(v)].kind # "blank" => WithoutEnd(v) = v
           /\ \A n \in 1..Len(v) :
                 n + 1 = Len(v) /\ v[Len(v)].kind = "blank" => WithoutEnd(v) = SubSeq(v, 1, n)
  <1>1. Len(v) \in Nat /\ Len(v) >= 1
    OBVIOUS
  <1>2. CASE v[Len(v)].kind = "blank"
    <2>1. WithoutEnd(v) = SubSeq(v, 1, Len(v) - 1)
      BY <1>2 DEF WithoutEnd, Last, Front
    <2> DEFINE w == SubSeq(v, 1, Len(v) - 1)
    <2>2. /\ w \in Seq(AnyLine) /\ Len(w) = Len(v) - 1
          /\ \A i \in 1..(Len(v) - 1) : w[i] = v[i]
      <3> DEFINE n == Len(v) - 1
      <3>1. n \in Nat /\ n =< Len(v) /\ \A i \in 1..n : v[i] \in AnyLine
        BY <1>1
      <3> HIDE DEF n
      <3>2. SubSeq(v, 1, n) \in Seq(AnyLine) /\ Len(SubSeq(v, 1, n)) = n
        BY <3>1, SubSeqProperties
      <3>3. \A i \in 1..n : SubSeq(v, 1, n)[i] = v[i]
        BY <3>1
      <3> QED BY <3>2, <3>3 DEF n
    <2>3. SubSeq(w, 1, Len(w)) = SubSeq(v, 1, Len(w))
      <3> HIDE DEF w
      <3>1. SubSeq(w, 1, Len(w)) = w
        BY <2>2
      <3> QED BY <2>2, <3>1 DEF w
    <2>4. IsPrefix(w, v)
      BY <1>1, <2>2, <2>3 DEF IsPrefix
    <2>5. \A n \in 1..Len(v) : n + 1 = Len(v) => n = Len(v) - 1
      BY <1>1
    <2> HIDE DEF w
    <2> QED BY <1>2, <2>1, <2>2, <2>4, <2>5 DEF w
  <1>3. CASE v[Len(v)].kind # "blank"
    <2>1. WithoutEnd(v) = v
      BY <1>3 DEF WithoutEnd, Last
    <2>2. IsPrefix(v, v)
      BY <1>1 DEF IsPrefix
    <2> QED BY <1>3, <2>1, <2>2
  <1> QED BY <1>2, <1>3

\* What is loaded has the names, keys and comments of what is saved.
LEMMA LoadedFacts ==
    ASSUME NEW m, NEW open, Tidy(m, open)
    PROVE  LET M == Loaded(m)
           IN  /\ m \in Seq(FileSection) /\ M \in Seq(FileSection) /\ Len(M) = Len(m)
               /\ \A s \in DOMAIN m :
                     /\ M[s].name = m[s].name /\ M[s].comment = m[s].comment
                     /\ m[s].entries \in Seq(FileEntry)
                     /\ M[s].entries \in Seq(FileEntry) /\ Len(M[s].entries) = Len(m[s].entries)
                     /\ \A e \in DOMAIN m[s].entries :
                           /\ m[s].entries[e].value \in Seq(AnyLine)
                           /\ m[s].entries[e].value # <<>>
                           /\ M[s].entries[e].key = m[s].entries[e].key
                           /\ M[s].entries[e].comment = m[s].entries[e].comment
                           /\ M[s].entries[e].value = WithoutEnd(m[s].entries[e].value)
  <1> DEFINE M == Loaded(m)
  <1>1. m \in Seq(FileSection) /\ DOMAIN m = 1..Len(m) /\ Len(m) \in Nat
    BY DEF Tidy
  <1>2. M = [s \in DOMAIN m |-> LoadedSection(m[s])]
    BY DEF Loaded
  <1> HIDE DEF M
  <1>3. ASSUME NEW s \in DOMAIN m
        PROVE  /\ M[s] \in FileSection
               /\ M[s].name = m[s].name /\ M[s].comment = m[s].comment
               /\ m[s].entries \in Seq(FileEntry)
               /\ M[s].entries \in Seq(FileEntry) /\ Len(M[s].entries) = Len(m[s].entries)
               /\ \A e \in DOMAIN m[s].entries :
                     /\ m[s].entries[e].value \in Seq(AnyLine)
                     /\ m[s].entries[e].value # <<>>
                     /\ M[s].entries[e].key = m[s].entries[e].key
                     /\ M[s].entries[e].comment = m[s].entries[e].comment
                     /\ M[s].entries[e].value = WithoutEnd(m[s].entries[e].value)
    <2> DEFINE E == m[s].entries
               F == [e \in DOMAIN E |-> LoadedEntry(E[e])]
    <2>1. m[s] \in FileSection
      BY <1>1
    <2>2. m[s].name \in LineNames /\ m[s].comment \in LineTexts /\ E \in Seq(FileEntry)
      BY <2>1 DEF FileSection
    <2>3. M[s] = [name |-> m[s].name, comment |-> m[s].comment, entries |-> F]
      <3>1. M[s] = [m[s] EXCEPT !.entries = F]
        BY <1>2 DEF LoadedSection
      <3> HIDE DEF F
      <3> QED BY <2>1, <3>1 DEF FileSection
    <2>4. \A e \in DOMAIN E : E[e].value # <<>>
      BY DEF Tidy, TidySection, TidyEntry
    <2> HIDE DEF E
    <2>5. DOMAIN E = 1..Len(E) /\ Len(E) \in Nat
      BY <2>2
    <2>6. ASSUME NEW e \in DOMAIN E
          PROVE  /\ E[e].value \in Seq(AnyLine) /\ LoadedEntry(E[e]) \in FileEntry
                 /\ F[e].key = E[e].key /\ F[e].comment = E[e].comment
                 /\ F[e].value = WithoutEnd(E[e].value)
      <3>1. E[e] \in FileEntry
        BY <2>2
      <3>2. E[e].key \in LineNames /\ E[e].value \in Seq(AnyLine) /\ E[e].comment \in LineTexts
        BY <3>1 DEF FileEntry
      <3>3. WithoutEnd(E[e].value) \in Seq(AnyLine)
        BY <2>4, <3>2, WithoutEndFacts
      <3>4. F[e] = [E[e] EXCEPT !.value = WithoutEnd(E[e].value)]
        BY DEF LoadedEntry
      <3> HIDE DEF F
      <3> QED BY <3>1, <3>2, <3>3, <3>4 DEF LoadedEntry, FileEntry
    <2>7. F \in Seq(FileEntry) /\ Len(F) = Len(E)
      BY <2>5, <2>6
    <2> HIDE DEF F
    <2>8. M[s] \in FileSection
      BY <2>2, <2>3, <2>7 DEF FileSection
    <2> QED BY <2>2, <2>3, <2>4, <2>6, <2>7, <2>8 DEF E
  <1>4. M \in Seq(FileSection) /\ Len(M) = Len(m)
    BY <1>1, <1>2, <1>3
  <1> QED BY <1>1, <1>3, <1>4 DEF M

\* The entries that have been read.
LEMMA UptoEntries ==
    ASSUME NEW M \in Seq(FileSection), NEW U, NEW s \in Nat, NEW e \in Nat,
           IsUpto(U, M, s, e, Val(M, s, e)), s # 0
    PROVE  /\ U[s] \in FileSection /\ M[s] \in FileSection /\ U[s].entries \in Seq(FileEntry)
           /\ M[s].entries \in Seq(FileEntry)
           /\ \A i \in 1..e : U[s].entries[i] = M[s].entries[i]
  <1>1. U \in Seq(FileSection) /\ Len(U) = s /\ s =< Len(M)
    BY DEF IsUpto
  <1> DEFINE E == U[s].entries
             F == M[s].entries
  <1>2. U[s] \in FileSection /\ M[s] \in FileSection
    BY <1>1
  <1>3. E \in Seq(FileEntry) /\ F \in Seq(FileEntry)
    BY <1>2 DEF FileSection
  <1>4. Len(E) = e /\ e =< Len(F) /\ \A i \in 1..(e - 1) : E[i] = F[i]
    BY DEF IsUpto
  <1>5. e # 0 => E[e].key = F[e].key /\ E[e].comment = F[e].comment /\ E[e].value = F[e].value
    BY DEF IsUpto, Val
  <1> HIDE DEF E, F
  <1>6. e # 0 => E[e] = F[e]
    <2> SUFFICES ASSUME e # 0 PROVE E[e] = F[e]
      OBVIOUS
    <2>1. E[e] \in FileEntry /\ F[e] \in FileEntry
      BY <1>3, <1>4
    <2> QED BY <1>5, <2>1 DEF FileEntry
  <1>7. \A i \in 1..e : E[i] = F[i]
    BY <1>4, <1>6
  <1> QED BY <1>2, <1>3, <1>7 DEF E, F

\* A section of which everything has been read.
LEMMA UptoWhole ==
    ASSUME NEW M \in Seq(FileSection), NEW U, NEW s \in Nat, NEW e \in Nat,
           IsUpto(U, M, s, e, Val(M, s, e)), s # 0 => e = Len(M[s].entries)
    PROVE  U \in Seq(FileSection) /\ \A j \in 1..s : U[j] = M[j]
  <1>1. U \in Seq(FileSection) /\ Len(U) = s /\ s =< Len(M) /\ \A j \in 1..(s - 1) : U[j] = M[j]
    BY DEF IsUpto
  <1>2. CASE s = 0
    BY <1>1, <1>2
  <1>3. CASE s # 0
    <2> DEFINE E == U[s].entries
               F == M[s].entries
    <2>1. U[s] \in FileSection /\ M[s] \in FileSection
      BY <1>1, <1>3
    <2>2. E \in Seq(FileEntry) /\ F \in Seq(FileEntry)
      BY <2>1 DEF FileSection
    <2>3. U[s].name = M[s].name /\ U[s].comment = M[s].comment
          /\ Len(E) = e /\ Len(F) = e /\ \A i \in 1..(e - 1) : E[i] = F[i]
      BY <1>3 DEF IsUpto
    <2>6. \A i \in 1..e : E[i] = F[i]
      BY <1>3, UptoEntries
    <2> HIDE DEF E, F
    <2>7. E = F
      BY <2>2, <2>3, <2>6, SeqEqual
    <2>8. U[s] = M[s]
      <3>1. U[s].entries = M[s].entries
        BY <2>7 DEF E, F
      <3> DEFINE a == U[s]
                 b == M[s]
      <3>2. a \in FileSection /\ b \in FileSection /\ a.name = b.name /\ a.comment = b.comment
            /\ a.entries = b.entries
        BY <2>1, <2>3, <3>1
      <3> HIDE DEF a, b
      <3>3. a = b
        BY <3>2 DEF FileSection
      <3> QED BY <3>3 DEF a, b
    <2>9. \A j \in 1..s : j = s \/ j \in 1..(s - 1)
      OBVIOUS
    <2> QED BY <1>1, <2>8, <2>9
  <1> QED BY <1>2, <1>3

\* A place in m: behind entry e of section s, or at the start.
IsPlace(m, s, e) ==
    /\ s \in 0..Len(m) /\ e \in Nat
    /\ s = 0 => e = 0
    /\ s # 0 => e =< Len(m[s].entries) /\ (m[s].name = NoText => e # 0)

\* Load has read up to that place, and has v of the entry there.
ReadTo(r, m, s, e, v) == r \in ReadType /\ r.current = s /\ IsUpto(r.sections, Loaded(m), s, e, v)

\* There are no more entries in the section.
SectionDone(m, s, e) == s # 0 => e = Len(m[s].entries)

\* It has read all of the entry there, and perhaps not yet the blank line behind it.
Between(r, m, s, e, rest) ==
    /\ ReadTo(r, m, s, e, Val(Loaded(m), s, e)) /\ r.pem = 0 /\ r.pending = NoText
    /\ \/ s # 0 /\ rest = After(m, s, e)
       \/ s # 0 /\ \E b \in AnyLine : b.kind = "blank" /\ rest = <<b>> \o After(m, s, e)
       \/ SectionDone(m, s, e) /\ rest = AfterSection(m, s)

\* It has read the comment, if there is one, of the next section.
BeforeHeader(r, m, s, e, rest) ==
    /\ ReadTo(r, m, s, e, Val(Loaded(m), s, e)) /\ r.pem = 0
    /\ SectionDone(m, s, e) /\ s < Len(m) /\ m[s + 1].name # NoText
    /\ r.pending = m[s + 1].comment
    /\ rest = <<Header(m[s + 1].name)>> \o After(m, s + 1, 0)

\* Section t is that which the entry behind the place belongs to.
NextEntryIn(m, s, e, t) ==
    /\ t \in DOMAIN m
    /\ t = s \/ (s = 0 /\ t = 1 /\ m[1].name = NoText)
    /\ e < Len(m[t].entries)

\* It has read the comment, if there is one, of the next entry.
BeforeValue(r, m, s, e, rest) ==
    /\ ReadTo(r, m, s, e, Val(Loaded(m), s, e)) /\ r.pem = 0
    /\ \E t : /\ NextEntryIn(m, s, e, t)
              /\ r.pending = m[t].entries[e + 1].comment
              /\ rest = m[t].entries[e + 1].value \o After(m, t, e + 1)

\* It reads the key at the place, of which it has k lines.
InKey(r, m, s, e, rest) ==
    /\ s # 0 /\ e # 0 /\ r.pem = e /\ r.pending = NoText
    /\ \E k \in 1..Len(m[s].entries[e].value) :
          LET v == m[s].entries[e].value
          IN  /\ v[1].kind = "pem" /\ \A i \in 1..k : v[i].kind # "end"
              /\ ReadTo(r, m, s, e, SubSeq(v, 1, k))
              /\ rest = SubSeq(v, k + 1, Len(v)) \o After(m, s, e)

\* What Load has read of the text of m, of which rest is left.
At(m, r, rest) ==
    \E s, e \in Nat :
        /\ IsPlace(m, s, e)
        /\ \/ Between(r, m, s, e, rest) \/ BeforeHeader(r, m, s, e, rest)
           \/ BeforeValue(r, m, s, e, rest) \/ InKey(r, m, s, e, rest)

\* A header is read.
LEMMA ReadsHeader ==
    ASSUME NEW m, NEW open, Tidy(m, open), NEW s \in Nat, NEW e \in Nat,
           IsPlace(m, s, e), NEW r, NEW rest, BeforeHeader(r, m, s, e, rest)
    PROVE  /\ rest # <<>>
           /\ Between(ReadLine(r, Head(rest)), m, s + 1, 0, Tail(rest))
           /\ IsPlace(m, s + 1, 0)
  <1> DEFINE M == Loaded(m)
             U == r.sections
             t == s + 1
             name == m[t].name
             line == Header(name)
             x == [name |-> name, comment |-> r.pending, entries |-> <<>>]
             q == ReadLine(r, line)
  <1>1. /\ m \in Seq(FileSection) /\ M \in Seq(FileSection) /\ Len(M) = Len(m)
        /\ \A i \in DOMAIN m : M[i].name = m[i].name /\ M[i].comment = m[i].comment
      BY LoadedFacts
  <1> HIDE DEF M
  <1>2. /\ ReadTo(r, m, s, e, Val(M, s, e)) /\ r.pem = 0
        /\ SectionDone(m, s, e) /\ s < Len(m) /\ name # NoText
        /\ r.pending = m[t].comment
        /\ rest = <<line>> \o After(m, t, 0)
    BY DEF BeforeHeader, M
  <1>3. /\ r \in ReadType /\ r.current = s /\ IsUpto(U, M, s, e, Val(M, s, e))
    BY <1>2 DEF ReadTo, M
  <1>4. t \in DOMAIN m /\ t \in Nat /\ t # 0 /\ t =< Len(m) /\ Len(m) \in Nat
    BY <1>1, <1>2
  <1>5. m[t] \in FileSection /\ m[t].entries \in Seq(FileEntry) /\ name \in LineNames
    <2>1. m[t] \in FileSection
      BY <1>1, <1>4
    <2> QED BY <2>1 DEF FileSection
  <1>6. line \in AnyLine /\ line.kind = "header" /\ line.name = name
    BY <1>5 DEF Header, Line, AnyLine, LineKinds, LineTexts
  <1>7. After(m, t, 0) \in Seq(AnyLine)
    <2>1. 0 \in 0..Len(m[t].entries)
      BY <1>5
    <2> QED BY <1>1, <1>4, <2>1, AfterSteps
  <1>8. Head(rest) = line /\ Tail(rest) = After(m, t, 0) /\ rest # <<>>
    <2> HIDE DEF line
    <2> QED BY <1>2, <1>6, <1>7, LineOfJoined
  <1>9. s # 0 => e = Len(M[s].entries)
    <2>1. s # 0 => s \in DOMAIN m
      BY <1>1, <1>2, <1>4
    <2> QED BY <1>2, <2>1, LoadedFacts DEF SectionDone, M
  <1>10. U \in Seq(FileSection) /\ \A j \in 1..s : U[j] = M[j]
    BY ZenonT(60), <1>1, <1>3, <1>9, UptoWhole
  <1>11. Len(U) = s
    BY <1>3 DEF IsUpto
  <1>12. FindSection(U, name) = 0
    <2>1. \A j \in 1..s : j \in DOMAIN m /\ j # t
      BY <1>4, <1>1
    <2>2. ASSUME NEW j \in 1..s PROVE U[j].name # name
      <3>1. U[j] = M[j] /\ M[j].name = m[j].name /\ j \in DOMAIN m /\ j # t
        BY <1>1, <1>10, <2>1
      <3>2. m[j].name # m[t].name
        <4> HIDE DEF t
        <4> QED BY <1>4, <3>1 DEF Tidy
      <3> QED BY <3>1, <3>2
    <2>3. FindSection(U, name) # 0 => /\ FindSection(U, name) \in DOMAIN U
                                      /\ U[FindSection(U, name)].name = name
      <3> HIDE DEF U, name
      <3> QED BY <1>10, SectionFound
    <2>4. DOMAIN U = 1..s
      BY <1>10, <1>11
    <2> HIDE DEF U, name
    <2> QED BY <2>2, <2>3, <2>4
  <1>13. q = [r EXCEPT !.sections = Append(U, x), !.current = s + 1, !.pending = NoText]
    <2>1. q = ReadHeader(r, name)
      BY <1>2, <1>6 DEF ReadLine
    <2> HIDE DEF q
    <2> QED BY <1>11, <1>12, <2>1 DEF ReadHeader
  <1>14. r.pending \in LineTexts
    BY <1>3 DEF ReadType
  <1>15. x \in FileSection
    BY <1>5, <1>14 DEF FileSection
  <1> DEFINE V == Append(U, x)
  <1>16. /\ V \in Seq(FileSection) /\ Len(V) = t /\ V[t] = x
         /\ \A j \in 1..s : V[j] = U[j]
    <2> HIDE DEF x, U
    <2> QED BY <1>10, <1>11, <1>15
  <1>17. /\ V[t].name = M[t].name /\ V[t].comment = M[t].comment /\ V[t].entries = <<>>
    BY SMTT(30), <1>1, <1>2, <1>4, <1>16
  <1>18. Len(M[t].entries) \in Nat
    <2>1. M[t] \in FileSection
      BY <1>1, <1>4
    <2> QED BY <2>1 DEF FileSection
  <1> HIDE DEF V, U, x, q, line, name
  <1>19. IsUpto(V, M, t, 0, Val(M, t, 0))
    <2>1. (s + 1) - 1 = s /\ \A j \in 1..s : V[j] = M[j]
      BY <1>10, <1>16
    <2>2. Len(V[t].entries) = 0 /\ 0 =< Len(M[t].entries)
      BY <1>17, <1>18
    <2>3. \A i \in 1..(0 - 1) : V[t].entries[i] = M[t].entries[i]
      OBVIOUS
    <2> QED BY <1>1, <1>4, <1>16, <1>17, <2>1, <2>2, <2>3 DEF IsUpto
  <1>20. q \in ReadType /\ q.sections = V /\ q.current = t /\ q.pending = NoText /\ q.pem = 0
    <2>1. NoText \in LineTexts
      BY DEF LineTexts
    <2>2. q = [r EXCEPT !.sections = V, !.current = t, !.pending = NoText]
      BY <1>13 DEF V
    <2>3. q \in ReadType
      BY <1>3, <1>4, <1>16, <2>1, <2>2 DEF ReadType
    <2> QED BY <1>2, <1>3, <2>2, <2>3 DEF ReadType
  <1>21. ReadTo(q, m, t, 0, Val(M, t, 0))
    BY <1>19, <1>20 DEF ReadTo, M
  <1>22. Between(q, m, t, 0, After(m, t, 0))
    BY <1>4, <1>20, <1>21 DEF Between, M
  <1>23. IsPlace(m, t, 0)
    BY <1>2, <1>4, <1>5 DEF IsPlace, name
  <1> QED BY <1>8, <1>22, <1>23 DEF q

\* The section of the next entry is there, or is appended without a name.
WithDefault(r) ==
    IF r.current = 0
    THEN Append(r.sections, [name |-> NoText, comment |-> NoText, entries |-> <<>>])
    ELSE r.sections

\* So m has been read up to the place before that entry.
LEMMA DefaultReads ==
    ASSUME NEW m, NEW open, Tidy(m, open), NEW s \in Nat, NEW e \in Nat, NEW t,
           NextEntryIn(m, s, e, t), IsPlace(m, s, e),
           NEW r, ReadTo(r, m, s, e, Val(Loaded(m), s, e))
    PROVE  LET M == Loaded(m)
               U == WithDefault(r)
           IN  /\ IsUpto(U, M, t, e, Val(M, t, e))
               /\ t = IF r.current = 0 THEN Len(r.sections) + 1 ELSE r.current
  <1> DEFINE M == Loaded(m)
             U == WithDefault(r)
             x == [name |-> NoText, comment |-> NoText, entries |-> <<>>]
  <1>1. /\ m \in Seq(FileSection) /\ M \in Seq(FileSection) /\ Len(M) = Len(m)
        /\ \A i \in DOMAIN m : M[i].name = m[i].name /\ M[i].comment = m[i].comment
    BY LoadedFacts
  <1>2. r \in ReadType /\ r.current = s /\ IsUpto(r.sections, M, s, e, Val(M, s, e))
    BY DEF ReadTo
  <1>3. r.sections \in Seq(FileSection) /\ Len(r.sections) = s /\ s =< Len(M) /\ (s = 0 => e = 0)
    BY <1>2 DEF IsUpto
  <1>4. t \in DOMAIN m /\ (t = s \/ (s = 0 /\ t = 1 /\ m[1].name = NoText))
    BY DEF NextEntryIn
  <1>5. CASE s # 0
    <2>1. t = s /\ U = r.sections
      BY <1>2, <1>4, <1>5 DEF WithDefault
    <2> QED BY <1>2, <1>5, <2>1
  <1>6. CASE s = 0
    <2>1. t = 1 /\ m[1].name = NoText /\ e = 0 /\ r.sections = <<>>
      BY <1>1, <1>3, <1>4, <1>6
    <2>2. U = Append(r.sections, x)
      BY <1>2, <1>6 DEF WithDefault
    <2>3. x \in FileSection
      BY DEF FileSection, LineNames, LineTexts
    <2>4. m[1].comment = NoText /\ 1 \in DOMAIN m
      BY <1>4, <2>1 DEF Tidy, TidySection
    <2>5. x.name = M[1].name /\ x.comment = M[1].comment /\ x.entries = <<>>
      BY <1>1, <2>1, <2>4
    <2> HIDE DEF x, U
    <2>6. U = <<x>>
      BY <2>1, <2>2
    <2>7. U \in Seq(FileSection) /\ Len(U) = 1 /\ U[1] = x
      BY <2>3, <2>6
    <2>8. Len(M[1].entries) \in Nat /\ 1 =< Len(M)
      <3>1. M[1] \in FileSection /\ 1 =< Len(M)
        BY <1>1, <2>4
      <3> QED BY <3>1 DEF FileSection
    <2> HIDE DEF M
    <2>9. IsUpto(U, M, 1, 0, Val(M, 1, 0))
      <3>1. \A j \in 1..(1 - 1) : U[j] = M[j]
        OBVIOUS
      <3>2. \A i \in 1..(0 - 1) : U[1].entries[i] = M[1].entries[i]
        OBVIOUS
      <3> QED BY <2>5, <2>7, <2>8, <3>1, <3>2 DEF IsUpto
    <2> QED BY <1>2, <1>3, <1>6, <2>1, <2>9 DEF M, U
  <1> QED BY <1>5, <1>6

\* An entry is read, or the first line of a key.
LEMMA ReadsValue ==
    ASSUME NEW m, NEW open, Tidy(m, open), NEW s \in Nat, NEW e \in Nat,
           IsPlace(m, s, e), NEW r, NEW rest, BeforeValue(r, m, s, e, rest)
    PROVE  /\ rest # <<>>
           /\ \E t \in Nat :
                 /\ IsPlace(m, t, e + 1)
                 /\ \/ Between(ReadLine(r, Head(rest)), m, t, e + 1, Tail(rest))
                    \/ InKey(ReadLine(r, Head(rest)), m, t, e + 1, Tail(rest))
  <1>1. PICK t : /\ NextEntryIn(m, s, e, t)
                 /\ r.pending = m[t].entries[e + 1].comment
                 /\ rest = m[t].entries[e + 1].value \o After(m, t, e + 1)
    BY Zenon DEF BeforeValue
  <1> DEFINE M == Loaded(m)
             U == WithDefault(r)
             n == e + 1
             v == m[t].entries[n].value
             line == v[1]
             key == m[t].entries[n].key
             value == <<line>>
             comment == r.pending
             entry == [key |-> key, value |-> value, comment |-> comment]
             R == WithEntry(U, t, key, value, comment)
             q == ReadLine(r, line)
  <1>2. t \in DOMAIN m /\ e < Len(m[t].entries)
    BY <1>1 DEF NextEntryIn
  <1>3. /\ m \in Seq(FileSection) /\ M \in Seq(FileSection) /\ Len(M) = Len(m)
        /\ M[t].name = m[t].name /\ M[t].comment = m[t].comment
        /\ m[t].entries \in Seq(FileEntry)
        /\ M[t].entries \in Seq(FileEntry) /\ Len(M[t].entries) = Len(m[t].entries)
        /\ \A i \in DOMAIN m[t].entries :
              /\ m[t].entries[i].value \in Seq(AnyLine)
              /\ m[t].entries[i].value # <<>>
              /\ M[t].entries[i].key = m[t].entries[i].key
              /\ M[t].entries[i].comment = m[t].entries[i].comment
              /\ M[t].entries[i].value = WithoutEnd(m[t].entries[i].value)
    BY <1>2, LoadedFacts
  <1>4. n \in DOMAIN m[t].entries /\ n \in Nat /\ t \in Nat \ {0} /\ t =< Len(m)
    BY SMTT(30), <1>2, <1>3
  <1>5. /\ v \in Seq(AnyLine) /\ v # <<>>
        /\ M[t].entries[n].key = key /\ M[t].entries[n].comment = comment
        /\ M[t].entries[n].value = WithoutEnd(v)
    BY <1>1, <1>3, <1>4
  <1>6. /\ ReadTo(r, m, s, e, Val(M, s, e)) /\ r.pem = 0
    BY DEF BeforeValue
  <1>7. r \in ReadType
    BY <1>6 DEF ReadTo
  <1>8. /\ IsUpto(U, M, t, e, Val(M, t, e))
        /\ t = IF r.current = 0 THEN Len(r.sections) + 1 ELSE r.current
    BY <1>1, <1>6, DefaultReads
  <1>9. TidyEntry(m[t].entries[n], <<t, n>> \in open) /\ DistinctKeys(m[t].entries)
    BY SMTT(30), <1>2, <1>4 DEF Tidy, TidySection
  <1>10. /\ line.name = key /\ line.kind \in {"entry", "pem"} /\ line \in AnyLine
         /\ line.kind = "entry" => Len(v) = 1
    <2>1. line \in AnyLine
      <3> HIDE DEF v
      <3> QED BY <1>5
    <2> QED BY Zenon, <1>9, <2>1 DEF TidyEntry, Plain, HasEnd, Unended
  <1>11. key \in LineNames /\ value \in Seq(AnyLine) /\ comment \in LineTexts
    <2>1. m[t].entries[n] \in FileEntry
      BY <1>3, <1>4
    <2> HIDE DEF line
    <2> QED BY <1>7, <1>10, <2>1 DEF FileEntry, ReadType
  <1>12. q = [r EXCEPT !.sections = R, !.current = t, !.pending = NoText,
                       !.pem = IF line.kind = "pem" THEN FindEntry(R[t], key) ELSE 0]
    <2>1. q = ReadEntry(r, line)
      BY <1>6, <1>10 DEF ReadLine
    <2> HIDE DEF q, line, key
    <2> QED BY <1>8, <1>10, <2>1 DEF ReadEntry, WithDefault
  <1> HIDE DEF M, U, q, v
  <1>13. /\ U \in Seq(FileSection) /\ Len(U) = t /\ t \in DOMAIN U /\ Len(U[t].entries) = e
         /\ U[t].entries \in Seq(FileEntry)
         /\ \A i \in 1..e : U[t].entries[i] = M[t].entries[i]
    <2>1. U \in Seq(FileSection) /\ Len(U) = t /\ Len(U[t].entries) = e
      BY <1>4, <1>8 DEF IsUpto
    <2>2. U[t].entries \in Seq(FileEntry) /\ \A i \in 1..e : U[t].entries[i] = M[t].entries[i]
      <3>1. M \in Seq(FileSection) /\ t \in Nat /\ t # 0 /\ e \in Nat
        BY <1>3, <1>4
      <3>2. IsUpto(U, M, t, e, Val(M, t, e))
        BY <1>8
      <3> HIDE DEF line, value, n, key, comment, entry, R
      <3> QED BY <3>1, <3>2, UptoEntries
    <2> QED BY <1>4, <2>1, <2>2
  <1>14. \A i \in 1..e : U[t].entries[i].key = m[t].entries[i].key /\ i \in DOMAIN m[t].entries
                          /\ i # n
    BY SMTT(30), <1>2, <1>3, <1>13
  <1>15. DistinctKeys(U[t].entries)
    <2>1. DOMAIN U[t].entries = 1..e
      BY <1>13
    <2> QED BY <1>9, <1>14, <2>1 DEF DistinctKeys
  <1>16. FindEntry(U[t], key) = 0
    <2>1. \A i \in 1..e : U[t].entries[i].key # key
      BY <1>4, <1>9, <1>14 DEF DistinctKeys
    <2>2. FindEntry(U[t], key) # 0 => /\ FindEntry(U[t], key) \in DOMAIN U[t].entries
                                      /\ U[t].entries[FindEntry(U[t], key)].key = key
      <3> HIDE DEF key
      <3> QED BY <1>13, EntryFound
    <2>3. DOMAIN U[t].entries = 1..e
      BY <1>13
    <2> HIDE DEF key
    <2> QED BY <2>1, <2>2, <2>3
  <1>17. PlaceOf(U[t], key) = n
    BY <1>13, <1>16 DEF PlaceOf
  <1> HIDE DEF value, comment, key, R, n
  <1>18. /\ R \in Seq(FileSection) /\ Len(R) = Len(U)
         /\ R[t].entries = Append(U[t].entries, entry)
         /\ FindEntry(R[t], key) = n
         /\ ChangedAt(U, R, t, n)
    <2>1. U \in Seq(FileSection) /\ t \in DOMAIN U
      BY <1>13
    <2> HIDE DEF U, entry
    <2>2. EntrySet(U, R, t, key, value, comment)
      BY <1>11, <1>15, <2>1, WithEntryFacts DEF R
    <2> QED BY <1>16, <1>17, <2>2 DEF EntrySet, entry
  <1>19. entry \in FileEntry /\ entry.key = key /\ entry.value = value /\ entry.comment = comment
    BY <1>11 DEF FileEntry
  <1> HIDE DEF entry
  <1>20. /\ Len(R[t].entries) = n /\ R[t].entries[n] = entry
         /\ \A i \in 1..e : R[t].entries[i] = U[t].entries[i]
    BY <1>13, <1>18, <1>19 DEF n
  <1>21. IsUpto(R, M, t, n, value)
    <2>1. Len(R) = t /\ t =< Len(M)
      BY <1>3, <1>4, <1>13, <1>18
    <2>2. \A j \in 1..(t - 1) : R[j] = M[j]
      <3>1. \A j \in 1..(t - 1) : U[j] = M[j]
        BY <1>8 DEF IsUpto
      <3>2. \A j \in 1..(t - 1) : j \in DOMAIN U /\ j # t
        BY <1>13, <1>4
      <3> QED BY <1>18, <3>1, <3>2 DEF ChangedAt
    <2>3. R[t].name = M[t].name /\ R[t].comment = M[t].comment
      <3>1. U[t].name = M[t].name /\ U[t].comment = M[t].comment
        BY <1>4, <1>8 DEF IsUpto
      <3> QED BY <1>18, <3>1 DEF ChangedAt
    <2>4. n =< Len(M[t].entries) /\ n - 1 = e /\ n # 0
      BY <1>2, <1>3 DEF n
    <2>5. \A i \in 1..(n - 1) : R[t].entries[i] = M[t].entries[i]
      BY <1>13, <1>20, <2>4
    <2> QED BY <1>4, <1>5, <1>18, <1>19, <1>20, <2>1, <2>2, <2>3, <2>4, <2>5 DEF IsUpto
  <1>22. /\ q \in ReadType /\ q.sections = R /\ q.current = t /\ q.pending = NoText
         /\ q.pem = IF line.kind = "pem" THEN n ELSE 0
    <2>1. NoText \in LineTexts
      BY DEF LineTexts
    <2>2. q = [r EXCEPT !.sections = R, !.current = t, !.pending = NoText,
                        !.pem = IF line.kind = "pem" THEN n ELSE 0]
      BY <1>12, <1>18
    <2> HIDE DEF line
    <2>3. q \in ReadType
      BY <1>4, <1>7, <1>18, <2>1, <2>2 DEF ReadType
    <2> QED BY <1>7, <2>2, <2>3 DEF ReadType
  <1>23. After(m, t, n) \in Seq(AnyLine)
    <2>1. n \in 0..Len(m[t].entries)
      BY <1>3, <1>4
    <2> QED BY <1>2, <1>3, <2>1, AfterSteps
  <1>24. Head(rest) = line /\ Tail(rest) = Tail(v) \o After(m, t, n) /\ rest # <<>>
    <2>1. rest = v \o After(m, t, n)
      BY <1>1 DEF v, n
    <2> QED BY <1>5, <1>23, <2>1, FirstOfJoined
  <1>25. IsPlace(m, t, n)
    BY <1>3, <1>4 DEF IsPlace
  <1>26. CASE line.kind = "entry"
    <2>1. Len(v) = 1
      BY <1>10, <1>26
    <2>2. v = value /\ Tail(v) = <<>>
      <3>1. value \in Seq(AnyLine) /\ Len(value) = 1 /\ value[1] = v[1]
        BY <1>11 DEF value
      <3>2. v = value
        BY <1>5, <2>1, <3>1, SeqEqual
      <3>3. Tail(v) \in Seq(AnyLine) /\ Len(Tail(v)) = 0
        BY <1>5, <2>1
      <3>4. Tail(v) = <<>>
        <4> DEFINE w == Tail(v)
        <4>1. w \in Seq(AnyLine) /\ Len(w) = 0
          BY <3>3
        <4> HIDE DEF w
        <4>2. w = <<>>
          BY <4>1
        <4> QED BY <4>2 DEF w
      <3> QED BY <3>2, <3>4
    <2>3. v[Len(v)].kind # "blank"
      BY <1>26, <2>1
    <2>4. Val(M, t, n) = value
      BY <1>4, <1>5, <2>2, <2>3, WithoutEndFacts DEF Val, n
    <2>5. Tail(rest) = After(m, t, n)
      <3>1. <<>> \o After(m, t, n) = After(m, t, n)
        BY <1>23
      <3> QED BY <1>24, <2>2, <3>1
    <2>6. ReadTo(q, m, t, n, Val(M, t, n))
      BY <1>21, <1>22, <2>4 DEF ReadTo, M
    <2>7. Between(q, m, t, n, Tail(rest))
      BY <1>4, <1>22, <1>26, <2>5, <2>6 DEF Between, M
    <2> QED BY <1>4, <1>24, <1>25, <2>7 DEF q, n
  <1>27. CASE line.kind = "pem"
    <2>1. SubSeq(v, 1, 1) = value /\ Tail(v) = SubSeq(v, 1 + 1, Len(v)) /\ 1 \in 1..Len(v)
      <3>1. Len(v) \in Nat /\ Len(v) >= 1
        BY <1>5
      <3>2. value \in Seq(AnyLine) /\ Len(value) = 1 /\ value[1] = v[1]
        BY <1>11 DEF value
      <3>3. /\ SubSeq(v, 1, 1) \in Seq(AnyLine) /\ Len(SubSeq(v, 1, 1)) = 1
            /\ SubSeq(v, 1, 1)[1] = v[1]
        BY <1>5, <3>1
      <3>4. SubSeq(v, 1, 1) = value
        BY <3>2, <3>3, SeqEqual
      <3>5. Tail(v) = SubSeq(v, 2, Len(v))
        BY <1>5 DEF Tail
      <3> QED BY <3>1, <3>4, <3>5
    <2>2. ReadTo(q, m, t, n, SubSeq(v, 1, 1))
      BY Zenon, <1>21, <1>22, <2>1 DEF ReadTo, M
    <2>3. \A i \in 1..1 : v[i].kind # "end"
      BY <1>27
    <2>4. t # 0 /\ n # 0 /\ q.pem = n /\ q.pending = NoText
      BY <1>4, <1>22, <1>27 DEF n
    <2>5. InKey(q, m, t, n, Tail(rest))
      BY Zenon, <1>24, <1>27, <2>1, <2>2, <2>3, <2>4 DEF InKey, v
    <2> QED BY <1>4, <1>24, <1>25, <2>5 DEF q, n
  <1> QED BY SMTT(30), <1>10, <1>26, <1>27

\* A sequence is read element by element.
LEMMA SubSeqSteps ==
    ASSUME NEW T, NEW v \in Seq(T), NEW k \in Nat, k < Len(v)
    PROVE  /\ SubSeq(v, 1, k) \in Seq(T) /\ SubSeq(v, k + 1, Len(v)) \in Seq(T)
           /\ SubSeq(v, k + 1, Len(v)) # <<>> /\ SubSeq(v, k + 1, Len(v))[1] = v[k + 1]
           /\ Tail(SubSeq(v, k + 1, Len(v))) = SubSeq(v, k + 2, Len(v))
           /\ SubSeq(v, k + 2, Len(v)) \in Seq(T)
           /\ Append(SubSeq(v, 1, k), v[k + 1]) = SubSeq(v, 1, k + 1)
           /\ SubSeq(v, 1, k + 1) \in Seq(T)
  <1>1. Len(v) \in Nat /\ \A i \in 1..Len(v) : v[i] \in T
    OBVIOUS
  <1>2. ASSUME NEW i \in 1..(Len(v) + 1), NEW j \in 0..Len(v)
        PROVE  SubSeq(v, i, j) \in Seq(T)
    <2>1. i \in Int /\ j \in Int /\ \A l \in i..j : v[l] \in T
      BY <1>1
    <2> QED BY <2>1, SubSeqProperties
  <1>3. 1 \in 1..(Len(v) + 1) /\ k \in 0..Len(v) /\ k + 1 \in 1..(Len(v) + 1)
        /\ k + 1 \in 0..Len(v) /\ k + 2 \in 1..(Len(v) + 1) /\ Len(v) \in 0..Len(v)
    BY <1>1
  <1>4. /\ SubSeq(v, 1, k) \in Seq(T) /\ SubSeq(v, k + 1, Len(v)) \in Seq(T)
        /\ SubSeq(v, 1, k + 1) \in Seq(T) /\ SubSeq(v, k + 2, Len(v)) \in Seq(T)
    BY <1>2, <1>3
  <1> DEFINE t == SubSeq(v, k + 1, Len(v))
  <1>5. k + 1 \in Nat /\ Len(v) \in (k + 1)..Len(v) /\ (k + 1) + 1 = k + 2
    BY <1>1
  <1>6. Head(t) = v[k + 1] /\ Tail(t) = SubSeq(v, k + 2, Len(v))
    <2>1. k + 1 \in 1..Len(v)
      BY <1>1
    <2>2. Head(t) = v[k + 1] /\ Tail(t) = SubSeq(v, (k + 1) + 1, Len(v))
      BY <1>5, <2>1, HeadTailOfSubSeq
    <2> QED BY <1>5, <2>2
  <1>7. Len(t) = Len(v) - k /\ Len(t) # 0
    BY <1>1
  <1> HIDE DEF t
  <1>8. t # <<>> /\ t[1] = v[k + 1]
    <2>1. t # <<>>
      BY <1>7
    <2> QED BY <1>4, <1>6, <2>1
  <1> DEFINE a == SubSeq(v, 1, k)
             b == SubSeq(v, 1, k + 1)
             c == Append(a, v[k + 1])
  <1>9. Len(a) = k /\ \A i \in 1..k : a[i] = v[i]
    BY <1>1
  <1>10. Len(b) = k + 1 /\ \A i \in 1..(k + 1) : b[i] = v[i]
    BY <1>1
  <1>11. a \in Seq(T) /\ b \in Seq(T) /\ v[k + 1] \in T
    BY <1>1, <1>4
  <1> HIDE DEF a, b
  <1>12. c \in Seq(T) /\ Len(c) = k + 1 /\ \A i \in 1..(k + 1) : c[i] = v[i]
    BY <1>9, <1>11
  <1> HIDE DEF c
  <1>13. b = c
    BY <1>10, <1>11, <1>12, SeqEqual
  <1> QED BY <1>4, <1>6, <1>8, <1>13 DEF t, a, b, c

\* A line of the key at a place has been added to it.
LineAdded(q, r, m, s, e, v, line) ==
    /\ ReadTo(q, m, s, e, Append(v, line)) /\ q.pending = r.pending
    /\ line.kind = "end" => q.pem = 0
    /\ line.kind # "end" => q.pem = e

\* So it is when it is read.
LEMMA KeyLineAdded ==
    ASSUME NEW m, NEW open, Tidy(m, open), NEW s \in Nat, s # 0, NEW e \in Nat, e # 0,
           IsPlace(m, s, e), NEW r, NEW v, ReadTo(r, m, s, e, v), r.pem = e,
           NEW line \in AnyLine
    PROVE  LineAdded(ReadLine(r, line), r, m, s, e, v, line)
  <1> DEFINE M == Loaded(m)
             U == r.sections
             w == Append(v, line)
             R == WithValue(U, s, e, w)
             q == ReadLine(r, line)
  <1>1. /\ m \in Seq(FileSection) /\ M \in Seq(FileSection) /\ Len(M) = Len(m)
        /\ \A i \in DOMAIN m[s].entries : M[s].entries[i].key = m[s].entries[i].key
        /\ Len(M[s].entries) = Len(m[s].entries) /\ m[s].entries \in Seq(FileEntry)
    BY LoadedFacts DEF IsPlace
  <1> HIDE DEF M
  <1>2. r \in ReadType /\ r.current = s /\ IsUpto(U, M, s, e, v)
    BY DEF ReadTo, M
  <1>3. /\ U \in Seq(FileSection) /\ Len(U) = s /\ s =< Len(M)
        /\ \A j \in 1..(s - 1) : U[j] = M[j]
        /\ U[s].name = M[s].name /\ U[s].comment = M[s].comment
        /\ Len(U[s].entries) = e /\ e =< Len(M[s].entries)
        /\ \A i \in 1..(e - 1) : U[s].entries[i] = M[s].entries[i]
        /\ U[s].entries[e].key = M[s].entries[e].key
        /\ U[s].entries[e].comment = M[s].entries[e].comment
        /\ U[s].entries[e].value = v
    BY <1>2 DEF IsUpto
  <1> HIDE DEF U
  <1>4. s \in DOMAIN U /\ s \in DOMAIN m
    BY <1>1, <1>3
  <1>5. U[s].entries \in Seq(FileEntry)
    <2>1. U[s] \in FileSection
      BY <1>3, <1>4
    <2> QED BY <2>1 DEF FileSection
  <1>6. e \in DOMAIN U[s].entries /\ DOMAIN U[s].entries = 1..e
    BY <1>3, <1>5
  <1>7. v \in Seq(AnyLine)
    <2>1. U[s].entries[e] \in FileEntry
      BY <1>5, <1>6
    <2> QED BY <1>3, <2>1 DEF FileEntry
  <1>8. DistinctKeys(U[s].entries)
    <2>1. DistinctKeys(m[s].entries)
      BY <1>4 DEF Tidy, TidySection
    <2>2. \A i \in 1..e : i \in DOMAIN m[s].entries /\ U[s].entries[i].key = m[s].entries[i].key
      <3>1. \A i \in 1..e : i = e \/ i \in 1..(e - 1)
        OBVIOUS
      <3>2. \A i \in 1..e : i \in DOMAIN m[s].entries
        BY <1>1, <1>3
      <3> QED BY ZenonT(60), <1>1, <1>3, <3>1, <3>2
    <2> QED BY <1>6, <2>1, <2>2 DEF DistinctKeys
  <1>9. w \in Seq(AnyLine)
    BY <1>7
  <1> HIDE DEF w
  <1>10. /\ ChangedAt(U, R, s, e) /\ Len(R[s].entries) = e
         /\ R[s].entries[e].value = w
         /\ R[s].entries[e].key = M[s].entries[e].key
         /\ R[s].entries[e].comment = M[s].entries[e].comment
    <2>1. /\ ChangedAt(U, R, s, e) /\ Len(R[s].entries) = Len(U[s].entries)
          /\ R[s].entries[e].value = w
          /\ R[s].entries[e].key = U[s].entries[e].key
          /\ R[s].entries[e].comment = U[s].entries[e].comment
      <3>1. U \in Seq(FileSection) /\ s \in DOMAIN U /\ e \in DOMAIN U[s].entries
        BY <1>3, <1>4, <1>6
      <3>2. Revalued(U, R, s, e, w)
        BY <1>8, <1>9, <3>1, WithValueFacts
      <3> QED BY <3>2 DEF Revalued
    <2> QED BY <1>3, <2>1
  <1>11. q = [r EXCEPT !.sections = R, !.pem = IF line.kind = "end" THEN 0 ELSE e]
    <2>1. q = ReadPemLine(r, line)
      BY DEF ReadLine
    <2>2. WithValue(r.sections, s, e, w) =
              [r.sections EXCEPT ![s].entries[e].value = Append(@, line)]
      BY <1>3 DEF WithValue, w, U
    <2> QED BY <1>2, <2>1, <2>2 DEF ReadPemLine, U
  <1> HIDE DEF R, q
  <1>12. R \in Seq(FileSection) /\ Len(R) = s /\ R[s].name = M[s].name
         /\ R[s].comment = M[s].comment
         /\ \A j \in 1..(s - 1) : R[j] = M[j]
    <2>1. \A j \in 1..(s - 1) : j \in DOMAIN U /\ j # s
      BY <1>3
    <2> QED BY <1>3, <1>10, <2>1 DEF ChangedAt
  <1>13. \A i \in 1..(e - 1) : R[s].entries[i] = M[s].entries[i]
    <2>1. DOMAIN R[s].entries = 1..e
      <3>1. R[s] \in FileSection
        BY <1>12
      <3>2. R[s].entries \in Seq(FileEntry)
        BY <3>1 DEF FileSection
      <3> QED BY <1>10, <3>2
    <2>2. \A i \in 1..(e - 1) : i \in DOMAIN R[s].entries \ {e}
      BY <2>1
    <2> QED BY <1>3, <1>10, <2>2 DEF ChangedAt
  <1>14. IsUpto(R, M, s, e, w)
    BY <1>3, <1>10, <1>12, <1>13 DEF IsUpto
  <1>15. /\ q \in ReadType /\ q.sections = R /\ q.current = s /\ q.pending = r.pending
         /\ q.pem = IF line.kind = "end" THEN 0 ELSE e
    <2>1. (IF line.kind = "end" THEN 0 ELSE e) \in Nat
      OBVIOUS
    <2>2. q \in ReadType
      BY <1>2, <1>11, <1>12, <2>1 DEF ReadType
    <2> QED BY <1>2, <1>11, <2>2 DEF ReadType
  <1>16. ReadTo(q, m, s, e, w)
    BY <1>14, <1>15 DEF ReadTo, M
  <1> QED BY <1>15, <1>16 DEF q, w, LineAdded

\* The value of an entry is its own, and begins a key only if it is one.
LEMMA ValueOf ==
    ASSUME NEW m, NEW open, Tidy(m, open), NEW s \in DOMAIN m, NEW e \in DOMAIN m[s].entries
    PROVE  LET v == m[s].entries[e].value
           IN  /\ v \in Seq(AnyLine) /\ v # <<>> /\ Len(v) \in Nat \ {0}
               /\ v[1].kind = "pem" => HasEnd(v) \/ (<<s, e>> \in open /\ Unended(v))
  <1> DEFINE v == m[s].entries[e].value
  <1>1. TidyEntry(m[s].entries[e], <<s, e>> \in open)
    BY DEF Tidy, TidySection
  <1>2. v \in Seq(AnyLine) /\ v # <<>>
    BY LoadedFacts
  <1> HIDE DEF v
  <1>3. Plain(v) \/ HasEnd(v) \/ (<<s, e>> \in open /\ Unended(v))
    BY <1>1 DEF TidyEntry, v
  <1> QED BY <1>2, <1>3 DEF Plain, v

\* Behind the last entry of all there is nothing.
LEMMA AfterLast ==
    ASSUME NEW m \in Seq(FileSection), NEW s \in DOMAIN m, NEW e, <<s, e>> = LastPlace(m)
    PROVE  After(m, s, e) = <<>>
  <1>1. s = Len(m) /\ e = Len(m[s].entries)
    BY DEF LastPlace
  <1>2. After(m, s, e) = BlankLines(m, s) \o AfterSection(m, s)
    BY <1>1, AfterSteps
  <1>3. AfterSection(m, s) = <<>>
    BY <1>1, AfterSteps
  <1>4. BlankLines(m, s) = <<>>
    BY <1>1 DEF BlankLines
  <1> QED BY <1>2, <1>3, <1>4

\* A line of a key is read.
LEMMA ReadsKeyLine ==
    ASSUME NEW m, Settled(m), NEW s \in Nat, NEW e \in Nat,
           IsPlace(m, s, e), NEW r, NEW rest, InKey(r, m, s, e, rest), rest # <<>>
    PROVE  \/ Between(ReadLine(r, Head(rest)), m, s, e, Tail(rest))
           \/ InKey(ReadLine(r, Head(rest)), m, s, e, Tail(rest))
  <1> DEFINE v == m[s].entries[e].value
             M == Loaded(m)
  <1>1. PICK k \in 1..Len(v) :
            /\ v[1].kind = "pem" /\ \A i \in 1..k : v[i].kind # "end"
            /\ ReadTo(r, m, s, e, SubSeq(v, 1, k))
            /\ rest = SubSeq(v, k + 1, Len(v)) \o After(m, s, e)
    BY ZenonT(60) DEF InKey
  <1>2. s # 0 /\ e # 0 /\ r.pem = e /\ r.pending = NoText
    BY Zenon DEF InKey
  <1>3. m \in Seq(FileSection) /\ s \in DOMAIN m /\ Tidy(m, {LastPlace(m)})
    <2>1. Tidy(m, {LastPlace(m)})
      BY DEF Settled
    <2>2. m \in Seq(FileSection)
      BY <2>1 DEF Tidy
    <2> QED BY <1>2, <2>1, <2>2 DEF IsPlace
  <1>4. /\ m[s].entries \in Seq(FileEntry) /\ Len(M[s].entries) = Len(m[s].entries)
        /\ \A i \in DOMAIN m[s].entries : M[s].entries[i].value = WithoutEnd(m[s].entries[i].value)
    BY <1>3, LoadedFacts
  <1>5. e \in DOMAIN m[s].entries /\ e =< Len(m[s].entries)
    BY <1>2, <1>4 DEF IsPlace
  <1>6. /\ v \in Seq(AnyLine) /\ v # <<>> /\ Len(v) \in Nat \ {0}
        /\ HasEnd(v) \/ (<<s, e>> = LastPlace(m) /\ Unended(v))
    <2>1. /\ v \in Seq(AnyLine) /\ v # <<>> /\ Len(v) \in Nat \ {0}
          /\ v[1].kind = "pem" => HasEnd(v) \/ (<<s, e>> \in {LastPlace(m)} /\ Unended(v))
      BY <1>3, <1>5, ValueOf
    <2> HIDE DEF v
    <2> QED BY <1>1, <2>1
  <1>7. Val(M, s, e) = WithoutEnd(v)
    BY <1>2, <1>4, <1>5 DEF Val
  <1> HIDE DEF v, M
  <1>8. After(m, s, e) \in Seq(AnyLine)
    <2>1. e \in 0..Len(m[s].entries)
      BY <1>4, <1>5
    <2> QED BY <1>3, <2>1, AfterSteps
  <1>9. k < Len(v)
    <2> SUFFICES ASSUME ~(k < Len(v)) PROVE FALSE
      OBVIOUS
    <2>1. k = Len(v)
      BY <1>1, <1>6
    <2>2. ~HasEnd(v)
      BY <1>1, <1>6, <2>1 DEF HasEnd
    <2>3. After(m, s, e) = <<>>
      BY <1>3, <1>6, <2>2, AfterLast
    <2>4. SubSeq(v, k + 1, Len(v)) = <<>>
      <3>1. Len(v) + 1 \in Int /\ Len(v) \in Int /\ Len(v) + 1 > Len(v)
        BY <1>6
      <3> QED BY <2>1, <3>1, SubSeqEmpty
    <2> QED BY <1>1, <2>3, <2>4
  <1> DEFINE line == v[k + 1]
             q == ReadLine(r, line)
             t == SubSeq(v, k + 2, Len(v))
             w == SubSeq(v, 1, k + 1)
  <1>10. k \in Nat /\ k + 1 \in 1..Len(v) /\ k + 1 \in Nat
    BY <1>1, <1>6, <1>9
  <1>11. line \in AnyLine
    BY <1>6, <1>10
  <1>12. /\ SubSeq(v, 1, k) \in Seq(AnyLine) /\ SubSeq(v, k + 1, Len(v)) \in Seq(AnyLine)
         /\ SubSeq(v, k + 1, Len(v)) # <<>> /\ SubSeq(v, k + 1, Len(v))[1] = line
         /\ Tail(SubSeq(v, k + 1, Len(v))) = t /\ t \in Seq(AnyLine)
         /\ Append(SubSeq(v, 1, k), line) = w /\ w \in Seq(AnyLine)
    BY <1>6, <1>9, <1>10, SubSeqSteps
  <1>13. Head(rest) = line /\ Tail(rest) = t \o After(m, s, e)
    <2> DEFINE a == SubSeq(v, k + 1, Len(v))
    <2>1. a \in Seq(AnyLine) /\ a # <<>> /\ a[1] = line /\ Tail(a) = t
      BY <1>12
    <2>2. rest = a \o After(m, s, e)
      BY <1>1
    <2> HIDE DEF a, line, t
    <2> QED BY <1>8, <2>1, <2>2, FirstOfJoined
  <1>14. /\ ReadTo(q, m, s, e, w) /\ q.pending = NoText
         /\ q.pem = IF line.kind = "end" THEN 0 ELSE e
    <2> DEFINE u == SubSeq(v, 1, k)
    <2>1. ReadTo(r, m, s, e, u) /\ Append(u, line) = w
      BY <1>1, <1>12
    <2> DEFINE open == {LastPlace(m)}
    <2>3. Tidy(m, open)
      BY <1>3
    <2> HIDE DEF u, w, line, open
    <2>4. LineAdded(q, r, m, s, e, u, line)
      BY <1>2, <1>11, <2>1, <2>3, KeyLineAdded
    <2> QED BY <1>2, <2>1, <2>4 DEF LineAdded
  <1>15. CASE line.kind # "end"
    <2>1. ASSUME NEW i \in 1..(k + 1) PROVE v[i].kind # "end"
      <3>1. i = k + 1 \/ i \in 1..k
        BY <1>10
      <3> QED BY <1>1, <1>15, <3>1
    <2>2. q.pem = e
      BY <1>14, <1>15
    <2>3. k + 2 = (k + 1) + 1
      BY SMTT(30), <1>10
    <2>4. InKey(q, m, s, e, Tail(rest))
      <3> DEFINE j == k + 1
      <3>1. /\ v[1].kind = "pem" /\ \A i \in 1..j : v[i].kind # "end"
            /\ ReadTo(q, m, s, e, SubSeq(v, 1, j))
            /\ Tail(rest) = SubSeq(v, j + 1, Len(v)) \o After(m, s, e)
            /\ j \in 1..Len(v)
        BY <1>1, <1>10, <1>13, <1>14, <2>1, <2>3
      <3> HIDE DEF j, q
      <3> QED BY Zenon, <1>2, <1>14, <2>2, <3>1 DEF InKey, v, q
    <2> QED BY <1>13, <2>4
  <1>16. CASE line.kind = "end"
    <2>1. HasEnd(v)
      BY <1>6, <1>10, <1>16 DEF Unended
    <2>2. PICK n \in 2..Len(v) :
              /\ \A i \in 1..(n - 1) : v[i].kind # "end"
              /\ v[n].kind = "end"
              /\ n = Len(v) \/ (n + 1 = Len(v) /\ v[Len(v)].kind = "blank")
      BY <2>1 DEF HasEnd
    <2>3. n = k + 1
      BY <1>1, <1>6, <1>10, <1>16, <2>2
    <2>4. q.pem = 0
      BY <1>14, <1>16
    <2>5. CASE n = Len(v)
      <3>1. v[Len(v)].kind # "blank"
        BY <2>2, <2>5
      <3>2. WithoutEnd(v) = v
        BY <1>6, <3>1, WithoutEndFacts
      <3>3. w = v
        BY <1>6, <2>3, <2>5, SubSeqFull
      <3>4. t = <<>>
        <4>1. k + 2 \in Int /\ Len(v) \in Int /\ k + 2 > Len(v)
          BY <1>6, <1>10, <2>3, <2>5
        <4> QED BY <4>1, SubSeqEmpty
      <3>5. Tail(rest) = After(m, s, e)
        <4>1. <<>> \o After(m, s, e) = After(m, s, e)
          BY <1>8
        <4> QED BY <1>13, <3>4, <4>1
      <3>6. Between(q, m, s, e, Tail(rest))
        BY <1>2, <1>7, <1>14, <2>4, <3>2, <3>3, <3>5 DEF Between, M
      <3> QED BY <1>13, <3>6
    <2>6. CASE n + 1 = Len(v) /\ v[Len(v)].kind = "blank"
      <3>1. WithoutEnd(v) = w
        <4>1. n \in 1..Len(v)
          BY <2>2
        <4> QED BY <1>6, <2>3, <2>6, <4>1, WithoutEndFacts
      <3> DEFINE b == v[Len(v)]
      <3>2. t = <<b>> /\ b \in AnyLine
        <4>1. k + 2 = Len(v) /\ Len(v) \in 1..Len(v)
          BY <1>6, <1>10, <2>3, <2>6
        <4>2. Len(t) = 1 /\ t[1] = b /\ b \in AnyLine
          BY <1>6, <4>1
        <4>3. <<b>> \in Seq(AnyLine) /\ Len(<<b>>) = 1 /\ <<b>>[1] = b
          BY <4>2
        <4> DEFINE a == <<b>>
        <4>4. a \in Seq(AnyLine) /\ Len(a) = 1 /\ a[1] = b
          BY <4>3
        <4> HIDE DEF t, a, b
        <4>5. t = a
          BY <1>12, <4>2, <4>4, SeqEqual
        <4> QED BY <4>2, <4>5 DEF a
      <3>3. Tail(rest) = <<b>> \o After(m, s, e)
        BY <1>13, <3>2
      <3>4. b.kind = "blank"
        BY <2>6
      <3> HIDE DEF b
      <3>5. \E c \in AnyLine : c.kind = "blank" /\ Tail(rest) = <<c>> \o After(m, s, e)
        BY <3>2, <3>3, <3>4
      <3>6. Between(q, m, s, e, Tail(rest))
        BY <1>2, <1>7, <1>14, <2>4, <3>1, <3>5 DEF Between, M
      <3> QED BY <1>13, <3>6
    <2> QED BY <2>2, <2>5, <2>6
  <1> QED BY SMTT(30), <1>15, <1>16

\* A comment waits for what is behind it.
LEMMA ReadsComment ==
    ASSUME NEW m, NEW s, NEW e, NEW v, NEW r, ReadTo(r, m, s, e, v), r.pem = 0,
           NEW c \in LineTexts
    PROVE  /\ ReadTo(ReadLine(r, Comment(c)), m, s, e, v)
           /\ ReadLine(r, Comment(c)).pem = 0 /\ ReadLine(r, Comment(c)).pending = c
  <1> DEFINE q == ReadLine(r, Comment(c))
  <1>1. Comment(c).kind = "comment" /\ Comment(c).text = c
    BY DEF Comment, Line
  <1>2. q = [r EXCEPT !.pending = c]
    BY <1>1 DEF ReadLine
  <1>3. r \in ReadType
    BY DEF ReadTo
  <1> HIDE DEF q
  <1>4. /\ q \in ReadType /\ q.sections = r.sections /\ q.current = r.current /\ q.pem = 0
        /\ q.pending = c
    BY <1>2, <1>3 DEF ReadType
  <1>5. ReadTo(q, m, s, e, v)
    BY <1>4 DEF ReadTo
  <1> QED BY <1>4, <1>5 DEF q

\* A blank line is skipped.
LEMMA ReadsBlank ==
    ASSUME NEW r, r.pem = 0, NEW b, b.kind = "blank"
    PROVE  ReadLine(r, b) = r
  BY DEF ReadLine

\* The next entry is read, or the comment before it.
LEMMA ReadsEntry ==
    ASSUME NEW m, Settled(m), NEW s \in Nat, NEW e \in Nat, IsPlace(m, s, e),
           NEW t, NextEntryIn(m, s, e, t),
           NEW r, ReadTo(r, m, s, e, Val(Loaded(m), s, e)), r.pem = 0, r.pending = NoText
    PROVE  At(m, ReadLine(r, Head(After(m, t, e))), Tail(After(m, t, e)))
  <1> DEFINE rest == After(m, t, e)
             x == m[t].entries[e + 1]
             v == x.value
             c == x.comment
             b == After(m, t, e + 1)
             open == {LastPlace(m)}
  <1>1. Tidy(m, open)
    BY DEF Settled
  <1>2. m \in Seq(FileSection) /\ t \in DOMAIN m /\ e < Len(m[t].entries)
    BY <1>1 DEF Tidy, NextEntryIn
  <1>3. m[t].entries \in Seq(FileEntry)
    <2>1. m[t] \in FileSection
      BY <1>2
    <2> QED BY <2>1 DEF FileSection
  <1>4. x \in FileEntry /\ e \in 0..(Len(m[t].entries) - 1) /\ e + 1 \in DOMAIN m[t].entries
        /\ e + 1 \in 0..Len(m[t].entries)
    BY <1>2, <1>3
  <1>5. v \in Seq(AnyLine) /\ v # <<>> /\ c \in LineTexts
    <2>1. v # <<>>
      BY <1>1, <1>2, <1>4 DEF Tidy, TidySection, TidyEntry
    <2> HIDE DEF x
    <2> QED BY <1>4, <2>1 DEF FileEntry
  <1>6. b \in Seq(AnyLine) /\ rest = EntryLines(x) \o b
    BY <1>2, <1>4, AfterSteps
  <1>7. CASE c = NoText
    <2>1. rest = v \o b
      <3>1. EntryLines(x) = <<>> \o v
        BY <1>7 DEF EntryLines, CommentLines
      <3>2. <<>> \o v = v
        BY SMTT(30), <1>5
      <3> QED BY <1>6, <3>1, <3>2
    <2>2. BeforeValue(r, m, s, e, rest)
      BY Zenon, <1>7, <2>1 DEF BeforeValue
    <2> HIDE DEF rest, open
    <2>3. PICK u \in Nat : /\ IsPlace(m, u, e + 1)
                           /\ \/ Between(ReadLine(r, Head(rest)), m, u, e + 1, Tail(rest))
                              \/ InKey(ReadLine(r, Head(rest)), m, u, e + 1, Tail(rest))
      BY <1>1, <2>2, ReadsValue
    <2>4. e + 1 \in Nat
      OBVIOUS
    <2>5. At(m, ReadLine(r, Head(rest)), Tail(rest))
      BY <2>3, <2>4 DEF At
    <2> QED BY <2>5 DEF rest
  <1>8. CASE c # NoText
    <2> DEFINE line == Comment(c)
               q == ReadLine(r, line)
    <2>1. line \in AnyLine
      BY <1>5 DEF Comment, Line, AnyLine, LineKinds, LineNames
    <2>2. rest = <<line>> \o (v \o b)
      <3> DEFINE a == <<line>>
      <3>1. EntryLines(x) = a \o v
        BY <1>8 DEF EntryLines, CommentLines
      <3>2. a \in Seq(AnyLine)
        BY <2>1
      <3>3. \A u, w, y \in Seq(AnyLine) : (u \o w) \o y = u \o (w \o y)
        BY ConcatAssociative
      <3> HIDE DEF a, v, b, line
      <3>4. (a \o v) \o b = a \o (v \o b)
        BY <1>5, <1>6, <3>2, <3>3
      <3> QED BY <1>6, <3>1, <3>4 DEF a
    <2>3. Head(rest) = line /\ Tail(rest) = v \o b
      <3>1. v \o b \in Seq(AnyLine)
        BY <1>5, <1>6
      <3> DEFINE y == v \o b
      <3>2. y \in Seq(AnyLine)
        BY <3>1
      <3> HIDE DEF y, line
      <3>3. Head(<<line>> \o y) = line /\ Tail(<<line>> \o y) = y
        BY SMTT(30), <2>1, <3>2, LineOfJoined
      <3> QED BY Zenon, <2>2, <3>3 DEF y
    <2>4. ReadTo(q, m, s, e, Val(Loaded(m), s, e)) /\ q.pem = 0 /\ q.pending = c
      <3> HIDE DEF c
      <3> QED BY <1>5, ReadsComment
    <2> HIDE DEF q
    <2>5. BeforeValue(q, m, s, e, Tail(rest))
      BY <2>3, <2>4 DEF BeforeValue
    <2>6. At(m, q, Tail(rest))
      BY <2>5 DEF At
    <2> QED BY <2>3, <2>6 DEF q
  <1> QED BY <1>7, <1>8

\* What is behind a section is read: a comment, a header, or the first entry.
LEMMA ReadsSection ==
    ASSUME NEW m, Settled(m), NEW s \in Nat, NEW e \in Nat, IsPlace(m, s, e),
           SectionDone(m, s, e), AfterSection(m, s) # <<>>,
           NEW r, ReadTo(r, m, s, e, Val(Loaded(m), s, e)), r.pem = 0, r.pending = NoText
    PROVE  At(m, ReadLine(r, Head(AfterSection(m, s))), Tail(AfterSection(m, s)))
  <1> DEFINE rest == AfterSection(m, s)
             t == s + 1
             c == m[t].comment
             b == After(m, t, 0)
             open == {LastPlace(m)}
             h == Header(m[t].name)
  <1>1. Tidy(m, open)
    BY DEF Settled
  <1>2. m \in Seq(FileSection)
    BY <1>1 DEF Tidy
  <1>3. s < Len(m) /\ t \in DOMAIN m /\ s \in 0..(Len(m) - 1)
    <2>1. s \in 0..Len(m)
      BY DEF IsPlace
    <2>2. s # Len(m)
      BY <1>2, AfterSteps
    <2> QED BY <1>2, <2>1, <2>2
  <1>4. rest = (CommentLines(c) \o HeaderLines(m[t])) \o b
    BY <1>2, <1>3, AfterSteps
  <1>5. m[t] \in FileSection /\ m[t].entries \in Seq(FileEntry) /\ c \in LineTexts
        /\ m[t].name \in LineNames
    <2>1. m[t] \in FileSection
      BY <1>2, <1>3
    <2> HIDE DEF t
    <2> QED BY <2>1 DEF FileSection
  <1>6. b \in Seq(AnyLine)
    <2>1. 0 \in 0..Len(m[t].entries)
      BY <1>5
    <2> QED BY <1>2, <1>3, <2>1, AfterSteps
  <1>7. h \in AnyLine
    BY <1>5 DEF Header, Line, AnyLine, LineKinds, LineTexts
  <1>8. CASE m[t].name = NoText
    <2>1. t = 1 /\ c = NoText /\ m[t].entries # <<>>
      BY <1>1, <1>3, <1>8 DEF Tidy, TidySection
    <2>2. s = 0 /\ e = 0
      BY <2>1 DEF IsPlace
    <2>3. rest = b
      <3>1. CommentLines(c) = <<>> /\ HeaderLines(m[t]) = <<>>
        BY <1>8, <2>1 DEF CommentLines, HeaderLines
      <3>2. (<<>> \o <<>>) \o b = b
        BY <1>6
      <3> QED BY <1>4, <3>1, <3>2
    <2>4. e < Len(m[t].entries)
      BY <1>5, <2>1, <2>2
    <2>5. NextEntryIn(m, s, e, t)
      BY <1>3, <1>8, <2>1, <2>2, <2>4 DEF NextEntryIn
    <2>6. At(m, ReadLine(r, Head(After(m, t, e))), Tail(After(m, t, e)))
      <3> HIDE DEF t
      <3> QED BY <2>5, ReadsEntry
    <2> QED BY <2>2, <2>3, <2>6
  <1>9. CASE m[t].name # NoText /\ c = NoText
    <2>1. rest = <<h>> \o b
      <3>1. CommentLines(c) = <<>> /\ HeaderLines(m[t]) = <<h>>
        BY <1>9 DEF CommentLines, HeaderLines
      <3>2. <<>> \o <<h>> = <<h>>
        BY <1>7
      <3> QED BY <1>4, <3>1, <3>2
    <2>2. BeforeHeader(r, m, s, e, rest)
      BY <1>3, <1>9, <2>1 DEF BeforeHeader
    <2>3. Between(ReadLine(r, Head(rest)), m, t, 0, Tail(rest)) /\ IsPlace(m, t, 0)
      <3> HIDE DEF open, rest
      <3> QED BY <1>1, <2>2, ReadsHeader
    <2>4. t \in Nat /\ 0 \in Nat
      OBVIOUS
    <2> HIDE DEF t, rest
    <2>5. At(m, ReadLine(r, Head(rest)), Tail(rest))
      BY <2>3, <2>4 DEF At
    <2> QED BY <2>5 DEF rest
  <1>10. CASE m[t].name # NoText /\ c # NoText
    <2> DEFINE line == Comment(c)
               q == ReadLine(r, line)
               y == <<h>> \o b
    <2>1. line \in AnyLine
      BY <1>5 DEF Comment, Line, AnyLine, LineKinds, LineNames
    <2>2. rest = <<line>> \o y /\ y \in Seq(AnyLine)
      <3> DEFINE a == <<line>>
                 g == <<h>>
      <3>1. CommentLines(c) = a /\ HeaderLines(m[t]) = g
        BY <1>10 DEF CommentLines, HeaderLines
      <3>2. a \in Seq(AnyLine) /\ g \in Seq(AnyLine)
        BY <1>7, <2>1
      <3>3. \A u, w, z \in Seq(AnyLine) : (u \o w) \o z = u \o (w \o z)
        BY ConcatAssociative
      <3>4. y = g \o b
        OBVIOUS
      <3> HIDE DEF a, g, b, line, y
      <3>5. (a \o g) \o b = a \o (g \o b)
        BY <1>6, <3>2, <3>3
      <3>6. rest = a \o y /\ y \in Seq(AnyLine)
        BY <1>4, <1>6, <3>1, <3>2, <3>4, <3>5
      <3> QED BY <3>6 DEF a
    <2>3. Head(rest) = line /\ Tail(rest) = y
      <3> HIDE DEF y, line
      <3>1. Head(<<line>> \o y) = line /\ Tail(<<line>> \o y) = y
        BY <2>1, <2>2, LineOfJoined
      <3> QED BY <2>2, <3>1
    <2>4. ReadTo(q, m, s, e, Val(Loaded(m), s, e)) /\ q.pem = 0 /\ q.pending = c
      <3> HIDE DEF c
      <3> QED BY <1>5, ReadsComment
    <2> HIDE DEF q
    <2>5. BeforeHeader(q, m, s, e, Tail(rest))
      BY <1>3, <1>10, <2>3, <2>4 DEF BeforeHeader
    <2>6. At(m, q, Tail(rest))
      BY <2>5 DEF At
    <2> QED BY <2>3, <2>6 DEF q
  <1> QED BY <1>8, <1>9, <1>10

\* What is behind an entry is read.
LEMMA ReadsBehind ==
    ASSUME NEW m, Settled(m), NEW s \in Nat, NEW e \in Nat, IsPlace(m, s, e),
           NEW r, NEW rest, Between(r, m, s, e, rest), rest # <<>>
    PROVE  At(m, ReadLine(r, Head(rest)), Tail(rest))
  <1>1. ReadTo(r, m, s, e, Val(Loaded(m), s, e)) /\ r.pem = 0 /\ r.pending = NoText
    BY DEF Between
  <1>2. m \in Seq(FileSection) /\ s \in 0..Len(m) /\ (s # 0 => s \in DOMAIN m)
    <2>1. m \in Seq(FileSection)
      BY DEF Settled, Tidy
    <2> QED BY <2>1 DEF IsPlace
  <1>3. CASE s # 0 /\ rest = After(m, s, e)
    <2>1. s \in DOMAIN m
      BY <1>2, <1>3
    <2>2. m[s].entries \in Seq(FileEntry)
      <3>1. m[s] \in FileSection
        BY <1>2, <2>1
      <3> QED BY <3>1 DEF FileSection
    <2>3. CASE e < Len(m[s].entries)
      <3>1. NextEntryIn(m, s, e, s)
        BY <2>1, <2>3 DEF NextEntryIn
      <3> QED BY <1>1, <1>3, <3>1, ReadsEntry
    <2>4. CASE ~(e < Len(m[s].entries))
      <3>1. e = Len(m[s].entries)
        BY <1>3, <2>2, <2>4 DEF IsPlace
      <3>2. rest = BlankLines(m, s) \o AfterSection(m, s) /\ AfterSection(m, s) \in Seq(AnyLine)
        BY <1>2, <1>3, <2>1, <3>1, AfterSteps
      <3>3. s < Len(m)
        <4> SUFFICES ASSUME ~(s < Len(m)) PROVE FALSE
          OBVIOUS
        <4>1. s = Len(m) /\ BlankLines(m, s) = <<>>
          BY <1>2 DEF BlankLines
        <4>2. AfterSection(m, s) = <<>>
          BY <1>2, <4>1, AfterSteps
        <4>3. rest = <<>>
          BY <3>2, <4>1, <4>2
        <4> QED BY <4>3
      <3>4. Blank \in AnyLine /\ Blank.kind = "blank"
        BY DEF Blank, Line, AnyLine, LineKinds, LineNames, LineTexts
      <3> DEFINE y == AfterSection(m, s)
                 b == Blank
      <3>5. rest = <<b>> \o y /\ y \in Seq(AnyLine) /\ b \in AnyLine /\ b.kind = "blank"
        BY <3>2, <3>3, <3>4 DEF BlankLines
      <3> HIDE DEF y, b
      <3>6. Head(<<b>> \o y) = b /\ Tail(<<b>> \o y) = y
        BY <3>5, LineOfJoined
      <3>7. Head(rest) = b /\ Tail(rest) = y
        BY <3>5, <3>6
      <3>8. ReadLine(r, b) = r
        BY <1>1, <3>5, ReadsBlank
      <3>9. Between(r, m, s, e, y)
        BY <1>1, <3>1 DEF Between, SectionDone, y
      <3> QED BY <3>7, <3>8, <3>9 DEF At
    <2> QED BY <2>3, <2>4
  <1>4. CASE s # 0 /\ \E b \in AnyLine : b.kind = "blank" /\ rest = <<b>> \o After(m, s, e)
    <2> DEFINE y == After(m, s, e)
    <2>1. PICK b \in AnyLine : b.kind = "blank" /\ rest = <<b>> \o y
      BY <1>4
    <2>2. y \in Seq(AnyLine)
      <3>1. m[s].entries \in Seq(FileEntry)
        <4>1. m[s] \in FileSection
          BY <1>2, <1>4
        <4> QED BY <4>1 DEF FileSection
      <3>2. e \in 0..Len(m[s].entries)
        BY <1>4, <3>1 DEF IsPlace
      <3> QED BY <1>2, <1>4, <3>2, AfterSteps
    <2> HIDE DEF y
    <2>3. Head(<<b>> \o y) = b /\ Tail(<<b>> \o y) = y
      BY <2>2, LineOfJoined
    <2>4. Head(rest) = b /\ Tail(rest) = y
      BY <2>1, <2>3
    <2>5. ReadLine(r, b) = r
      BY <1>1, <2>1, ReadsBlank
    <2>6. Between(r, m, s, e, y)
      BY <1>1, <1>4 DEF Between, y
    <2> QED BY <2>4, <2>5, <2>6 DEF At
  <1>5. CASE SectionDone(m, s, e) /\ rest = AfterSection(m, s)
    BY <1>1, <1>5, ReadsSection
  <1> QED BY <1>3, <1>4, <1>5 DEF Between

\* Load reads what Save has written, line by line.
LEMMA ReadsOn ==
    ASSUME NEW m, Settled(m), NEW r, NEW rest, At(m, r, rest), rest # <<>>
    PROVE  At(m, ReadLine(r, Head(rest)), Tail(rest))
  <1>1. PICK s, e \in Nat :
            /\ IsPlace(m, s, e)
            /\ \/ Between(r, m, s, e, rest) \/ BeforeHeader(r, m, s, e, rest)
               \/ BeforeValue(r, m, s, e, rest) \/ InKey(r, m, s, e, rest)
    BY DEF At
  <1> DEFINE open == {LastPlace(m)}
  <1>2. Tidy(m, open)
    BY DEF Settled
  <1> HIDE DEF open
  <1>3. s + 1 \in Nat /\ e + 1 \in Nat /\ 0 \in Nat
    OBVIOUS
  <1>4. CASE Between(r, m, s, e, rest)
    BY <1>1, <1>4, ReadsBehind
  <1>5. CASE BeforeHeader(r, m, s, e, rest)
    <2> DEFINE t == s + 1
    <2>1. Between(ReadLine(r, Head(rest)), m, t, 0, Tail(rest)) /\ IsPlace(m, t, 0)
      BY <1>1, <1>2, <1>5, ReadsHeader
    <2>2. t \in Nat
      BY <1>3
    <2> HIDE DEF t
    <2> QED BY <1>3, <2>1, <2>2 DEF At
  <1>6. CASE BeforeValue(r, m, s, e, rest)
    <2>1. PICK t \in Nat : /\ IsPlace(m, t, e + 1)
                           /\ \/ Between(ReadLine(r, Head(rest)), m, t, e + 1, Tail(rest))
                              \/ InKey(ReadLine(r, Head(rest)), m, t, e + 1, Tail(rest))
      BY <1>1, <1>2, <1>6, ReadsValue
    <2> QED BY <1>3, <2>1 DEF At
  <1>7. CASE InKey(r, m, s, e, rest)
    <2>1. \/ Between(ReadLine(r, Head(rest)), m, s, e, Tail(rest))
          \/ InKey(ReadLine(r, Head(rest)), m, s, e, Tail(rest))
      BY <1>1, <1>7, ReadsKeyLine
    <2> QED BY <1>1, <2>1 DEF At
  <1> QED BY <1>1, <1>4, <1>5, <1>6, <1>7

\* Only empty sequences make an empty one.
LEMMA EmptyJoined ==
    ASSUME NEW T, NEW a \in Seq(T), NEW b \in Seq(T), a \o b = <<>>
    PROVE  a = <<>> /\ b = <<>>
  <1>1. Len(a \o b) = Len(a) + Len(b) /\ Len(a) \in Nat /\ Len(b) \in Nat
    OBVIOUS
  <1>2. Len(a) = 0 /\ Len(b) = 0
    BY <1>1
  <1> QED BY <1>2

\* There is something behind every entry but the last.
LEMMA NothingBehind ==
    ASSUME NEW m, NEW open, Tidy(m, open), NEW s \in DOMAIN m, NEW e \in 0..Len(m[s].entries),
           After(m, s, e) = <<>>
    PROVE  s = Len(m) /\ e = Len(m[s].entries)
  <1>1. m \in Seq(FileSection)
    BY DEF Tidy
  <1>2. m[s].entries \in Seq(FileEntry)
    <2>1. m[s] \in FileSection
      BY <1>1
    <2> QED BY <2>1 DEF FileSection
  <1>3. e = Len(m[s].entries)
    <2> SUFFICES ASSUME e # Len(m[s].entries) PROVE FALSE
      OBVIOUS
    <2> DEFINE x == m[s].entries[e + 1]
               b == After(m, s, e + 1)
    <2>1. e \in 0..(Len(m[s].entries) - 1) /\ e + 1 \in DOMAIN m[s].entries
          /\ e + 1 \in 0..Len(m[s].entries)
      BY <1>2
    <2>2. EntryLines(x) \o b = <<>> /\ b \in Seq(AnyLine)
      BY <1>1, <2>1, AfterSteps
    <2>3. x.value \in Seq(AnyLine) /\ x.value # <<>> /\ CommentLines(x.comment) \in Seq(AnyLine)
      <3>1. x.value # <<>>
        BY <2>1, LoadedFacts
      <3> QED BY <1>1, <2>1, <3>1, LinesWritten
    <2> HIDE DEF x, b
    <2>4. EntryLines(x) \in Seq(AnyLine)
      BY <2>3 DEF EntryLines
    <2>5. EntryLines(x) = <<>>
      BY <2>2, <2>4, EmptyJoined
    <2>6. x.value = <<>>
      BY <2>3, <2>5, EmptyJoined DEF EntryLines
    <2> QED BY <2>3, <2>6
  <1>4. s = Len(m)
    <2> SUFFICES ASSUME s # Len(m) PROVE FALSE
      OBVIOUS
    <2>1. s < Len(m) /\ s \in 0..Len(m)
      BY <1>1
    <2>2. BlankLines(m, s) \o AfterSection(m, s) = <<>> /\ AfterSection(m, s) \in Seq(AnyLine)
          /\ BlankLines(m, s) \in Seq(AnyLine)
      BY <1>1, <1>3, <2>1, AfterSteps, LinesWritten
    <2>3. BlankLines(m, s) = <<>>
      BY <2>2, EmptyJoined
    <2>4. <<Blank>> # <<>>
      OBVIOUS
    <2> QED BY <2>1, <2>3, <2>4 DEF BlankLines
  <1> QED BY <1>3, <1>4

\* There is something behind every section but the last.
LEMMA NothingBehindSection ==
    ASSUME NEW m, NEW open, Tidy(m, open), NEW s \in 0..Len(m), AfterSection(m, s) = <<>>
    PROVE  s = Len(m)
  <1> SUFFICES ASSUME s # Len(m) PROVE FALSE
    OBVIOUS
  <1> DEFINE t == s + 1
             a == CommentLines(m[t].comment)
             h == HeaderLines(m[t])
             b == After(m, t, 0)
  <1>1. m \in Seq(FileSection)
    BY DEF Tidy
  <1>2. s \in 0..(Len(m) - 1) /\ t \in DOMAIN m
    BY <1>1
  <1>3. m[t].entries \in Seq(FileEntry) /\ 0 \in 0..Len(m[t].entries)
    <2>1. m[t] \in FileSection
      BY <1>1, <1>2
    <2>2. m[t].entries \in Seq(FileEntry)
      BY <2>1 DEF FileSection
    <2> QED BY <2>2
  <1>4. (a \o h) \o b = <<>> /\ a \in Seq(AnyLine) /\ h \in Seq(AnyLine) /\ b \in Seq(AnyLine)
    <2>1. (a \o h) \o b = <<>>
      BY <1>1, <1>2, AfterSteps
    <2>2. b \in Seq(AnyLine)
      BY <1>1, <1>2, <1>3, AfterSteps
    <2> HIDE DEF t
    <2> QED BY <1>1, <1>2, <2>1, <2>2, LinesWritten
  <1> HIDE DEF a, h, b, t
  <1>5. a \o h \in Seq(AnyLine)
    BY <1>4
  <1>6. a \o h = <<>> /\ b = <<>>
    BY <1>4, <1>5, EmptyJoined
  <1>7. h = <<>>
    BY <1>4, <1>6, EmptyJoined
  <1>8. m[t].name = NoText
    <2>1. <<Header(m[t].name)>> # <<>>
      OBVIOUS
    <2> QED BY <1>7, <2>1 DEF h, HeaderLines
  <1>9. m[t].entries # <<>>
    BY <1>2, <1>8 DEF Tidy, TidySection
  <1>10. 0 = Len(m[t].entries)
    BY <1>2, <1>3, <1>6, NothingBehind DEF b
  <1> QED BY <1>3, <1>9, <1>10

\* Of everything, everything has been read.
LEMMA ReadWhole ==
    ASSUME NEW m, NEW open, Tidy(m, open), NEW s \in Nat, NEW e \in Nat, s = Len(m),
           s # 0 => e = Len(m[s].entries),
           NEW r, ReadTo(r, m, s, e, Val(Loaded(m), s, e))
    PROVE  r.sections = Loaded(m)
  <1> DEFINE M == Loaded(m)
             U == r.sections
  <1>1. /\ m \in Seq(FileSection) /\ M \in Seq(FileSection) /\ Len(M) = Len(m)
        /\ \A i \in DOMAIN m : Len(M[i].entries) = Len(m[i].entries)
    BY LoadedFacts
  <1> HIDE DEF M
  <1>2. IsUpto(U, M, s, e, Val(M, s, e))
    BY DEF ReadTo, M
  <1>3. s # 0 => e = Len(M[s].entries)
    BY <1>1
  <1> HIDE DEF U
  <1>4. U \in Seq(FileSection) /\ \A j \in 1..s : U[j] = M[j]
    BY ZenonT(60), <1>1, <1>2, <1>3, UptoWhole
  <1>5. Len(U) = s
    BY <1>2 DEF IsUpto
  <1>6. U = M
    BY <1>1, <1>4, <1>5, SeqEqual
  <1> QED BY <1>6 DEF U, M

\* Nothing is left when everything has been read.
LEMMA ReadToEnd ==
    ASSUME NEW m, Settled(m), NEW r, At(m, r, <<>>)
    PROVE  r.sections = Loaded(m)
  <1> DEFINE open == {LastPlace(m)}
  <1>1. Tidy(m, open)
    BY DEF Settled
  <1> HIDE DEF open
  <1>2. m \in Seq(FileSection)
    BY <1>1 DEF Tidy
  <1> DEFINE rest == <<>>
  <1>3. PICK s, e \in Nat :
            /\ IsPlace(m, s, e)
            /\ \/ Between(r, m, s, e, rest) \/ BeforeHeader(r, m, s, e, rest)
               \/ BeforeValue(r, m, s, e, rest) \/ InKey(r, m, s, e, rest)
    BY DEF At
  <1>4. s \in 0..Len(m) /\ (s # 0 => s \in DOMAIN m /\ m[s].entries \in Seq(FileEntry)
                                     /\ e \in 0..Len(m[s].entries))
    <2>1. s \in 0..Len(m) /\ (s # 0 => s \in DOMAIN m)
      BY <1>2, <1>3 DEF IsPlace
    <2>2. s # 0 => m[s] \in FileSection
      BY <1>2, <2>1
    <2>3. s # 0 => m[s].entries \in Seq(FileEntry)
      BY <2>2 DEF FileSection
    <2> QED BY <1>3, <2>1, <2>3 DEF IsPlace
  <1>5. rest = <<>>
    OBVIOUS
  <1> HIDE DEF rest
  <1>6. CASE Between(r, m, s, e, rest)
    <2>1. ReadTo(r, m, s, e, Val(Loaded(m), s, e))
      BY <1>6 DEF Between
    <2>2. s = Len(m) /\ (s # 0 => e = Len(m[s].entries))
      <3>1. CASE s # 0 /\ rest = After(m, s, e)
        BY <1>1, <1>4, <1>5, <3>1, NothingBehind
      <3>2. CASE s # 0 /\ \E b \in AnyLine : b.kind = "blank" /\ rest = <<b>> \o After(m, s, e)
        <4>1. PICK b \in AnyLine : rest = <<b>> \o After(m, s, e)
          BY <3>2
        <4>2. After(m, s, e) \in Seq(AnyLine)
          BY <1>2, <1>4, <3>2, AfterSteps
        <4> QED BY <1>5, <4>1, <4>2, LineOfJoined
      <3>3. CASE SectionDone(m, s, e) /\ rest = AfterSection(m, s)
        BY <1>1, <1>4, <1>5, <3>3, NothingBehindSection DEF SectionDone
      <3> QED BY <1>6, <3>1, <3>2, <3>3 DEF Between
    <2> QED BY <1>1, <2>1, <2>2, ReadWhole
  <1>7. ~BeforeHeader(r, m, s, e, rest)
    BY <1>1, <1>3, <1>5, ReadsHeader
  <1>8. ~BeforeValue(r, m, s, e, rest)
    BY <1>1, <1>3, <1>5, ReadsValue
  <1>9. CASE InKey(r, m, s, e, rest)
    <2> DEFINE v == m[s].entries[e].value
    <2>1. PICK k \in 1..Len(v) :
              /\ v[1].kind = "pem" /\ \A i \in 1..k : v[i].kind # "end"
              /\ ReadTo(r, m, s, e, SubSeq(v, 1, k))
              /\ rest = SubSeq(v, k + 1, Len(v)) \o After(m, s, e)
      BY Zenon, <1>9 DEF InKey
    <2>2. s # 0 /\ e # 0 /\ s \in DOMAIN m /\ e \in DOMAIN m[s].entries
      BY <1>4, <1>9 DEF InKey
    <2>3. v \in Seq(AnyLine) /\ v # <<>> /\ Len(v) \in Nat \ {0}
      BY <1>1, <2>2, ValueOf
    <2>4. Val(Loaded(m), s, e) = WithoutEnd(v)
      BY <1>1, <2>2, LoadedFacts DEF Val
    <2>5. After(m, s, e) \in Seq(AnyLine)
      BY <1>2, <1>4, <2>2, AfterSteps
    <2>6. Unended(v) => v[Len(v)].kind # "blank"
      BY <2>2 DEF Settled, SolidEnds
    <2> HIDE DEF v
    <2>7. SubSeq(v, k + 1, Len(v)) \in Seq(AnyLine)
      <3>1. k + 1 \in Int /\ Len(v) \in Int /\ \A i \in (k + 1)..Len(v) : v[i] \in AnyLine
        BY <2>1, <2>3
      <3> QED BY <3>1, SubSeqProperties
    <2> DEFINE a == SubSeq(v, k + 1, Len(v))
    <2>8. a \in Seq(AnyLine) /\ a \o After(m, s, e) = <<>>
      BY <1>5, <2>1, <2>7
    <2> HIDE DEF a
    <2>9. a = <<>> /\ After(m, s, e) = <<>>
      BY <2>5, <2>8, EmptyJoined
    <2>10. s = Len(m) /\ e = Len(m[s].entries)
      BY <1>1, <1>4, <2>2, <2>9, NothingBehind
    <2>11. k = Len(v)
      <3> SUFFICES ASSUME k # Len(v) PROVE FALSE
        OBVIOUS
      <3>1. k \in Nat /\ k < Len(v)
        BY <2>1, <2>3
      <3>2. a # <<>>
        BY <2>3, <3>1, SubSeqSteps DEF a
      <3> QED BY <2>9, <3>2
    <2>12. SubSeq(v, 1, k) = v
      BY <2>3, <2>11, SubSeqFull
    <2>13. Unended(v)
      BY <2>1, <2>11 DEF Unended
    <2>14. WithoutEnd(v) = v
      BY <2>3, <2>6, <2>13, WithoutEndFacts
    <2>15. ReadTo(r, m, s, e, Val(Loaded(m), s, e))
      BY <2>1, <2>4, <2>12, <2>14
    <2> QED BY SMTT(30), <1>1, <2>10, <2>15, ReadWhole
  <1> QED BY <1>3, <1>6, <1>7, <1>8, <1>9

\* Before the first line.
LEMMA ReadFromStart ==
    ASSUME NEW m, Settled(m)
    PROVE  At(m, Reading, Text(m))
  <1>1. m \in Seq(FileSection) /\ Len(m) \in Nat
    BY DEF Settled, Tidy
  <1>2. Loaded(m) \in Seq(FileSection)
    <2> DEFINE open == {LastPlace(m)}
    <2>1. Tidy(m, open)
      BY DEF Settled
    <2> HIDE DEF open
    <2> QED BY <2>1, LoadedFacts
  <1>3. /\ Reading \in ReadType /\ Reading.sections = <<>> /\ Reading.current = 0
        /\ Reading.pem = 0 /\ Reading.pending = NoText
    BY DEF Reading, ReadType, LineTexts
  <1>4. IsUpto(<<>>, Loaded(m), 0, 0, <<>>)
    <2> DEFINE M == Loaded(m)
    <2>1. M \in Seq(FileSection)
      BY <1>2
    <2> HIDE DEF M
    <2>2. <<>> \in Seq(FileSection) /\ Len(<<>>) = 0 /\ 0 =< Len(M)
      BY <2>1
    <2>3. \A j \in 1..(0 - 1) : <<>>[j] = M[j]
      OBVIOUS
    <2>4. IsUpto(<<>>, M, 0, 0, <<>>)
      BY <2>2, <2>3 DEF IsUpto
    <2> QED BY <2>4 DEF M
  <1>5. ReadTo(Reading, m, 0, 0, Val(Loaded(m), 0, 0))
    BY <1>3, <1>4 DEF ReadTo, Val
  <1>6. Text(m) = AfterSection(m, 0)
    BY <1>1, SectionTextsWritten
  <1>7. Between(Reading, m, 0, 0, Text(m))
    BY <1>3, <1>5, <1>6 DEF Between, SectionDone
  <1>8. IsPlace(m, 0, 0)
    BY <1>1 DEF IsPlace
  <1> QED BY <1>7, <1>8 DEF At

\* What Load has read of the first lines that Save writes.
LEMMA ReadsPrefix ==
    ASSUME NEW m, Settled(m), NEW n \in 0..Len(Text(m))
    PROVE  At(m, ReadAll(SubSeq(Text(m), 1, n)), SubSeq(Text(m), n + 1, Len(Text(m))))
  <1> DEFINE T == Text(m)
             Reads(i) == At(m, ReadAll(SubSeq(T, 1, i)), SubSeq(T, i + 1, Len(T)))
             Bad == {i \in Nat : i =< Len(T) /\ ~Reads(i)}
  <1>1. T \in Seq(AnyLine) /\ Len(T) \in Nat
    <2>1. m \in Seq(FileSection) /\ 0 \in 0..Len(m)
      BY DEF Settled, Tidy
    <2>2. T \in Seq(AnyLine)
      BY <2>1, SectionTextsWritten, AfterSteps
    <2> HIDE DEF T
    <2> QED BY <2>2
  <1>2. At(m, Reading, T)
    BY ReadFromStart
  <1> HIDE DEF T
  <1>3. Bad = {}
    <2> SUFFICES ASSUME Bad # {} PROVE FALSE
      OBVIOUS
    <2>1. PICK k \in Bad : \A i \in Bad : k =< i
      BY LeastNumber
    <2>2. k \in Nat /\ k =< Len(T) /\ ~Reads(k)
      BY <2>1
    <2>3. CASE k = 0
      <3>1. SubSeq(T, 1, 0) = <<>>
        BY SubSeqEmpty
      <3>2. SubSeq(T, 0 + 1, Len(T)) = T
        BY <1>1, SubSeqFull
      <3>3. Reads(0)
        BY <1>2, <3>1, <3>2, NothingRead
      <3> QED BY <2>2, <2>3, <3>3
    <2>4. CASE k # 0
      <3> DEFINE j == k - 1
                 a == SubSeq(T, 1, j)
                 rest == SubSeq(T, j + 1, Len(T))
                 line == T[j + 1]
      <3>1. j \in Nat /\ j < k /\ j < Len(T) /\ j + 1 = k /\ j + 2 = k + 1
        BY <1>1, <2>2, <2>4
      <3>2. j \notin Bad
        <4> HIDE DEF Bad, j
        <4> QED BY <2>1, <2>2, <3>1
      <3>3. Reads(j)
        <4> HIDE DEF j, Reads
        <4> QED BY <1>1, <3>1, <3>2
      <3> HIDE DEF j
      <3>4. /\ a \in Seq(AnyLine) /\ rest \in Seq(AnyLine) /\ rest # <<>> /\ rest[1] = line
            /\ Tail(rest) = SubSeq(T, k + 1, Len(T)) /\ Append(a, line) = SubSeq(T, 1, k)
        BY ZenonT(60), <1>1, <3>1, SubSeqSteps
      <3>5. line \in AnyLine
        BY <1>1, <3>1
      <3>6. At(m, ReadAll(a), rest)
        BY <3>3
      <3> HIDE DEF a, rest, line
      <3>7. Head(rest) = line
        BY <3>4
      <3>8. At(m, ReadLine(ReadAll(a), line), Tail(rest))
        BY <3>4, <3>6, <3>7, ReadsOn
      <3>9. ReadAll(Append(a, line)) = ReadLine(ReadAll(a), line)
        BY <3>4, <3>5, ReadSteps
      <3>10. Reads(k)
        BY <3>4, <3>8, <3>9
      <3> QED BY <2>2, <3>10
    <2> QED BY <2>3, <2>4
  <1>4. Reads(n)
    <2>1. n \in Nat /\ n =< Len(T) /\ n \notin Bad
      BY <1>1, <1>3 DEF T
    <2> HIDE DEF Reads
    <2> QED BY <2>1
  <1> QED BY <1>4 DEF T

\* A part of a value that Load has when it has read some of its lines.
IsRead(u, v) ==
    /\ u \in Seq(AnyLine) /\ u # <<>> /\ IsPrefix(WithoutEnd(u), v)
    /\ u[1] = v[1]
    /\ Plain(u) \/ HasEnd(u) \/ Unended(u)
    /\ u = SubSeq(v, 1, Len(u))

\* Load has read sections and entries up to a place, and some of the entry there.
ReadPart(U, m, s, e, u) ==
    /\ IsPlace(m, s, e) /\ IsUpto(U, Loaded(m), s, e, u)
    /\ s # 0 /\ e # 0 => IsRead(u, m[s].entries[e].value)

\* A prefix of a sequence is its beginning.
LEMMA PrefixIs ==
    ASSUME NEW T, NEW v \in Seq(T), NEW k \in 0..Len(v)
    PROVE  /\ IsPrefix(SubSeq(v, 1, k), v) /\ SubSeq(v, 1, k) \in Seq(T)
           /\ Len(SubSeq(v, 1, k)) = k
           /\ \A i \in 1..k : SubSeq(v, 1, k)[i] = v[i]
  <1> DEFINE w == SubSeq(v, 1, k)
  <1>1. Len(v) \in Nat /\ k \in Nat /\ k =< Len(v) /\ \A i \in 1..k : v[i] \in T
    OBVIOUS
  <1>2. w \in Seq(T) /\ Len(w) = k
    BY <1>1, SubSeqProperties
  <1>3. \A i \in 1..k : w[i] = v[i]
    BY <1>1
  <1> HIDE DEF w
  <1>4. SubSeq(w, 1, Len(w)) = w
    BY <1>2, SubSeqFull
  <1>5. SubSeq(w, 1, Len(w)) = SubSeq(v, 1, Len(w))
    BY <1>2, <1>4 DEF w
  <1>6. IsPrefix(w, v)
    BY <1>1, <1>2, <1>5 DEF IsPrefix
  <1> QED BY <1>2, <1>3, <1>6 DEF w

\* Some lines of a value, and those without the last.
LEMMA PartOfValue ==
    ASSUME NEW v \in Seq(AnyLine), NEW k \in 1..Len(v)
    PROVE  /\ SubSeq(v, 1, k) \in Seq(AnyLine) /\ SubSeq(v, 1, k) # <<>>
           /\ SubSeq(v, 1, k)[1] = v[1] /\ Len(SubSeq(v, 1, k)) = k
           /\ IsPrefix(WithoutEnd(SubSeq(v, 1, k)), v)
           /\ SubSeq(v, 1, k) = SubSeq(v, 1, Len(SubSeq(v, 1, k)))
  <1> DEFINE u == SubSeq(v, 1, k)
  <1>1. k \in 0..Len(v) /\ k \in Nat \ {0} /\ Len(v) \in Nat
    OBVIOUS
  <1>2. /\ IsPrefix(u, v) /\ u \in Seq(AnyLine) /\ Len(u) = k
        /\ \A i \in 1..k : u[i] = v[i]
    BY <1>1, PrefixIs
  <1>3. u # <<>> /\ u[1] = v[1]
    BY <1>1, <1>2
  <1>4. IsPrefix(WithoutEnd(u), v)
    <2>1. CASE u[Len(u)].kind = "blank"
      <3> DEFINE j == k - 1
      <3>1. j \in 0..Len(v) /\ Len(u) = j + 1
        BY <1>1, <1>2
      <3>2. WithoutEnd(u) = SubSeq(u, 1, j)
        BY <2>1, <3>1 DEF WithoutEnd, Last, Front
      <3>3. SubSeq(u, 1, j) = SubSeq(v, 1, j)
        <4> DEFINE a == SubSeq(u, 1, j)
                   b == SubSeq(v, 1, j)
        <4>1. j \in 0..Len(u)
          BY <3>1, <1>1
        <4>2. a \in Seq(AnyLine) /\ Len(a) = j /\ \A i \in 1..j : a[i] = u[i]
          <5> HIDE DEF u, j
          <5> QED BY <1>2, <4>1, PrefixIs
        <4>3. b \in Seq(AnyLine) /\ Len(b) = j /\ \A i \in 1..j : b[i] = v[i]
          <5> HIDE DEF j
          <5> QED BY <3>1, PrefixIs
        <4>4. \A i \in 1..j : i \in 1..k
          BY <1>1
        <4> HIDE DEF a, b, j, u
        <4>5. \A i \in 1..j : a[i] = b[i]
          BY <1>2, <4>2, <4>3, <4>4
        <4>6. a = b
          BY <4>2, <4>3, <4>5, SeqEqual
        <4> QED BY <4>6 DEF a, b
      <3> HIDE DEF j, u
      <3>4. IsPrefix(SubSeq(v, 1, j), v)
        BY <3>1, PrefixIs
      <3> QED BY <3>2, <3>3, <3>4 DEF u
    <2>2. CASE u[Len(u)].kind # "blank"
      <3>1. WithoutEnd(u) = u
        BY <2>2 DEF WithoutEnd, Last
      <3> HIDE DEF u
      <3>2. IsPrefix(WithoutEnd(u), v)
        BY <1>2, <3>1
      <3> QED BY <3>2 DEF u
    <2> QED BY <2>1, <2>2
  <1> QED BY <1>2, <1>3, <1>4

\* What is read of a value in the end.
LEMMA WholeValueRead ==
    ASSUME NEW v \in Seq(AnyLine), v # <<>>,
           Plain(v) \/ HasEnd(v) \/ (Unended(v) /\ v[Len(v)].kind # "blank")
    PROVE  IsRead(WithoutEnd(v), v) /\ (Unended(WithoutEnd(v)) => Unended(v))
  <1>1. Len(v) \in Nat \ {0} /\ Len(v) \in 1..Len(v)
    OBVIOUS
  <1>2. SubSeq(v, 1, Len(v)) = v
    BY SubSeqFull
  <1>3. IsPrefix(WithoutEnd(v), v)
    BY WithoutEndFacts
  <1>4. IsPrefix(WithoutEnd(SubSeq(v, 1, Len(v))), v)
    BY <1>1, PartOfValue
  <1>5. CASE v[Len(v)].kind # "blank" /\ (Plain(v) \/ HasEnd(v) \/ Unended(v))
    <2>1. WithoutEnd(v) = v
      BY <1>5, WithoutEndFacts
    <2> QED BY <1>2, <1>3, <1>5, <2>1 DEF IsRead
  <1>6. CASE v[Len(v)].kind = "blank"
    <2>1. ~Plain(v)
      BY <1>6 DEF Plain
    <2>2. HasEnd(v)
      BY <1>6, <2>1
    <2>3. PICK n \in 2..Len(v) :
              /\ \A k \in 1..(n - 1) : v[k].kind # "end"
              /\ v[n].kind = "end"
              /\ n = Len(v) \/ (n + 1 = Len(v) /\ v[Len(v)].kind = "blank")
      BY <2>2 DEF HasEnd
    <2>4. n + 1 = Len(v) /\ n \in 1..Len(v)
      BY <1>6, <2>3
    <2> DEFINE u == SubSeq(v, 1, n)
    <2>5. WithoutEnd(v) = u
      BY <1>6, <2>4, WithoutEndFacts
    <2>6. /\ u \in Seq(AnyLine) /\ u # <<>> /\ u[1] = v[1] /\ Len(u) = n
          /\ IsPrefix(WithoutEnd(u), v) /\ u = SubSeq(v, 1, Len(u))
      BY <2>4, PartOfValue
    <2>7. \A k \in 1..n : u[k] = v[k]
      BY <1>1, <2>4
    <2> HIDE DEF u
    <2>8. HasEnd(u)
      <3>1. v[1].kind = "pem"
        BY <2>2 DEF HasEnd
      <3>2. n \in 2..Len(u) /\ u[n].kind = "end" /\ \A k \in 1..(n - 1) : u[k].kind # "end"
        <4>1. n \in 1..n /\ n \in 2..Len(u) /\ \A k \in 1..(n - 1) : k \in 1..n
          BY <2>3, <2>6
        <4> QED BY <2>3, <2>7, <4>1
      <3>3. n = Len(u) /\ u[1].kind = "pem"
        BY <2>6, <3>1
      <3> QED BY <3>2, <3>3 DEF HasEnd
    <2>9. ~Unended(u)
      BY <2>8 DEF HasEnd, Unended
    <2> QED BY <2>5, <2>6, <2>8, <2>9 DEF IsRead
  <1> QED BY <1>5, <1>6

\* So it is with every entry of settled settings.
LEMMA LoadedValues ==
    ASSUME NEW m, Settled(m), NEW s \in DOMAIN m, NEW e \in DOMAIN m[s].entries
    PROVE  LET v == m[s].entries[e].value
           IN  /\ IsRead(WithoutEnd(v), v) /\ v \in Seq(AnyLine) /\ v # <<>>
               /\ v[1].name = m[s].entries[e].key
               /\ Unended(WithoutEnd(v)) => <<s, e>> = LastPlace(m)
  <1> DEFINE v == m[s].entries[e].value
             open == {LastPlace(m)}
  <1>1. Tidy(m, open)
    BY DEF Settled
  <1>2. TidyEntry(m[s].entries[e], <<s, e>> \in open)
    BY <1>1 DEF Tidy, TidySection
  <1>3. Unended(v) => v[Len(v)].kind # "blank"
    BY DEF Settled, SolidEnds
  <1> HIDE DEF open
  <1>4. v \in Seq(AnyLine) /\ v # <<>>
    BY <1>1, LoadedFacts
  <1>5. /\ v[1].name = m[s].entries[e].key
        /\ Plain(v) \/ HasEnd(v) \/ (<<s, e>> \in open /\ Unended(v))
    BY <1>2 DEF TidyEntry
  <1> HIDE DEF v
  <1>6. IsRead(WithoutEnd(v), v) /\ (Unended(WithoutEnd(v)) => Unended(v))
    BY <1>3, <1>4, <1>5, WholeValueRead
  <1>7. Unended(v) => <<s, e>> = LastPlace(m)
    BY <1>5 DEF Unended, Plain, HasEnd, open
  <1> QED BY <1>4, <1>5, <1>6, <1>7 DEF v

\* There is always a place up to which Load has read.
LEMMA PartRead ==
    ASSUME NEW m, Settled(m), NEW r, NEW rest, At(m, r, rest)
    PROVE  \E s, e \in Nat : \E u : ReadPart(r.sections, m, s, e, u)
  <1> DEFINE open == {LastPlace(m)}
             M == Loaded(m)
             U == r.sections
  <1>1. Tidy(m, open)
    BY DEF Settled
  <1> HIDE DEF open
  <1>2. m \in Seq(FileSection)
    BY <1>1 DEF Tidy
  <1>3. PICK s, e \in Nat :
            /\ IsPlace(m, s, e)
            /\ \/ Between(r, m, s, e, rest) \/ BeforeHeader(r, m, s, e, rest)
               \/ BeforeValue(r, m, s, e, rest) \/ InKey(r, m, s, e, rest)
    BY DEF At
  <1>4. ASSUME s # 0, e # 0 PROVE s \in DOMAIN m /\ e \in DOMAIN m[s].entries
    <2>1. s \in DOMAIN m
      BY <1>2, <1>3, <1>4 DEF IsPlace
    <2>2. m[s] \in FileSection
      BY <1>2, <2>1
    <2>3. m[s].entries \in Seq(FileEntry)
      BY <2>2 DEF FileSection
    <2> QED BY <1>3, <1>4, <2>1, <2>3 DEF IsPlace
  <1>5. CASE ReadTo(r, m, s, e, Val(M, s, e))
    <2>1. IsUpto(U, M, s, e, Val(M, s, e))
      BY <1>5 DEF ReadTo
    <2>2. ASSUME s # 0, e # 0 PROVE IsRead(Val(M, s, e), m[s].entries[e].value)
      <3>1. s \in DOMAIN m /\ e \in DOMAIN m[s].entries
        BY <1>4, <2>2
      <3>2. Val(M, s, e) = WithoutEnd(m[s].entries[e].value)
        BY <1>1, <2>2, <3>1, LoadedFacts DEF Val
      <3> QED BY <3>1, <3>2, LoadedValues
    <2> DEFINE u == Val(M, s, e)
    <2>3. ReadPart(U, m, s, e, u)
      BY <1>3, <2>1, <2>2 DEF ReadPart
    <2> HIDE DEF u
    <2> QED BY <2>3
  <1>6. CASE InKey(r, m, s, e, rest)
    <2> DEFINE v == m[s].entries[e].value
    <2>1. PICK k \in 1..Len(v) :
              /\ v[1].kind = "pem" /\ \A i \in 1..k : v[i].kind # "end"
              /\ ReadTo(r, m, s, e, SubSeq(v, 1, k))
      BY Zenon, <1>6 DEF InKey
    <2>2. s \in DOMAIN m /\ e \in DOMAIN m[s].entries
      BY <1>4, <1>6 DEF InKey
    <2>3. v \in Seq(AnyLine)
      BY <2>2, LoadedValues
    <2> DEFINE u == SubSeq(v, 1, k)
    <2>4. IsUpto(U, M, s, e, u)
      BY <2>1 DEF ReadTo
    <2> HIDE DEF v
    <2>5. /\ u \in Seq(AnyLine) /\ u # <<>> /\ u[1] = v[1] /\ Len(u) = k
          /\ IsPrefix(WithoutEnd(u), v) /\ u = SubSeq(v, 1, Len(u))
      BY <2>3, PartOfValue
    <2>6. \A i \in 1..k : u[i] = v[i]
      BY <2>1, <2>3
    <2> HIDE DEF u
    <2>7. Unended(u)
      BY <2>1, <2>5, <2>6 DEF Unended
    <2>8. IsRead(u, v)
      BY <2>5, <2>7 DEF IsRead
    <2>9. ReadPart(U, m, s, e, u)
      BY <1>3, <2>4, <2>8 DEF ReadPart, v
    <2> QED BY SMTT(30), <2>9
  <1> QED BY <1>3, <1>5, <1>6 DEF Between, BeforeHeader, BeforeValue

\* Everything in U is in m, or is a part of what is there.
EntriesRead(U, m) ==
    /\ U \in Seq(FileSection)
    /\ \A j \in DOMAIN U :
          /\ j \in DOMAIN m /\ U[j].name = m[j].name /\ U[j].comment = m[j].comment
          /\ \A i \in DOMAIN U[j].entries :
                /\ i \in DOMAIN m[j].entries /\ U[j].entries[i].key = m[j].entries[i].key
                /\ IsRead(U[j].entries[i].value, m[j].entries[i].value)

\* So it is with what has been read, and only the last entry may be open.
LEMMA PartReads ==
    ASSUME NEW m, Settled(m), NEW U, NEW s \in Nat, NEW e \in Nat, NEW u,
           ReadPart(U, m, s, e, u)
    PROVE  EntriesRead(U, m) /\ Tidy(U, {LastPlace(U)})
  <1> DEFINE open == {LastPlace(m)}
             last == {LastPlace(U)}
             M == Loaded(m)
  <1>1. Tidy(m, open)
    BY DEF Settled
  <1> HIDE DEF open
  <1>2. /\ m \in Seq(FileSection) /\ M \in Seq(FileSection) /\ Len(M) = Len(m)
        /\ \A j \in DOMAIN m :
              /\ M[j].name = m[j].name /\ M[j].comment = m[j].comment
              /\ m[j].entries \in Seq(FileEntry)
              /\ M[j].entries \in Seq(FileEntry) /\ Len(M[j].entries) = Len(m[j].entries)
              /\ \A i \in DOMAIN m[j].entries :
                    /\ M[j].entries[i].key = m[j].entries[i].key
                    /\ M[j].entries[i].value = WithoutEnd(m[j].entries[i].value)
    BY <1>1, LoadedFacts
  <1>3. IsPlace(m, s, e) /\ IsUpto(U, M, s, e, u)
        /\ (s # 0 /\ e # 0 => IsRead(u, m[s].entries[e].value))
    BY DEF ReadPart
  <1> HIDE DEF M
  <1>4. /\ U \in Seq(FileSection) /\ Len(U) = s /\ s =< Len(m) /\ DOMAIN U = 1..s
        /\ \A j \in 1..(s - 1) : U[j] = M[j]
    BY <1>2, <1>3 DEF IsUpto
  <1>5. ASSUME NEW j \in DOMAIN U
        PROVE  /\ j \in DOMAIN m /\ U[j].name = m[j].name /\ U[j].comment = m[j].comment
               /\ U[j].entries \in Seq(FileEntry)
               /\ m[j].name = NoText => U[j].entries # <<>>
               /\ \A i \in DOMAIN U[j].entries :
                     /\ i \in DOMAIN m[j].entries /\ U[j].entries[i].key = m[j].entries[i].key
                     /\ IsRead(U[j].entries[i].value, m[j].entries[i].value)
                     /\ Unended(U[j].entries[i].value) => <<j, i>> \in last
    <2>1. j \in DOMAIN m
      BY <1>2, <1>4
    <2>2. U[j].entries \in Seq(FileEntry)
      <3>1. U[j] \in FileSection
        BY <1>4
      <3> QED BY <3>1 DEF FileSection
    <2>3. CASE j # s
      <3>1. U[j] = M[j] /\ j < s /\ j \in Nat
        BY <1>4, <2>3
      <3>2. m[j].name = NoText => U[j].entries # <<>>
        <4>1. m[j].name = NoText => m[j].entries # <<>>
          BY <1>1, <2>1 DEF Tidy, TidySection
        <4>2. m[j].entries # <<>> => Len(m[j].entries) # 0
          BY <1>2, <2>1
        <4>3. Len(U[j].entries) = Len(m[j].entries)
          BY <1>2, <2>1, <3>1
        <4>4. Len(<<>>) = 0
          OBVIOUS
        <4> QED BY <4>1, <4>2, <4>3, <4>4
      <3>3. ASSUME NEW i \in DOMAIN U[j].entries
            PROVE  /\ i \in DOMAIN m[j].entries /\ U[j].entries[i].key = m[j].entries[i].key
                   /\ IsRead(U[j].entries[i].value, m[j].entries[i].value)
                   /\ ~Unended(U[j].entries[i].value)
        <4>1. i \in DOMAIN m[j].entries
          BY <1>2, <2>1, <2>2, <3>1
        <4>2. /\ U[j].entries[i].key = m[j].entries[i].key
              /\ U[j].entries[i].value = WithoutEnd(m[j].entries[i].value)
          BY <1>2, <2>1, <3>1, <4>1
        <4>3. IsRead(U[j].entries[i].value, m[j].entries[i].value)
          BY <2>1, <4>1, <4>2, LoadedValues
        <4>4. Unended(U[j].entries[i].value) => <<j, i>> = LastPlace(m)
          BY <2>1, <4>1, <4>2, LoadedValues
        <4>5. <<j, i>> # LastPlace(m)
          BY <1>2, <1>4, <3>1 DEF LastPlace
        <4> QED BY <4>1, <4>2, <4>3, <4>4, <4>5
      <3> QED BY <1>2, <2>1, <2>2, <3>1, <3>2, <3>3
    <2>4. CASE j = s
      <3>1. /\ s # 0 /\ U[s].name = M[s].name /\ U[s].comment = M[s].comment
            /\ Len(U[s].entries) = e /\ e =< Len(M[s].entries)
            /\ \A i \in 1..(e - 1) : U[s].entries[i] = M[s].entries[i]
            /\ e # 0 => /\ U[s].entries[e].key = M[s].entries[e].key
                        /\ U[s].entries[e].value = u
        BY <1>3, <1>4, <2>4 DEF IsUpto
      <3>2. m[s].name = NoText => U[s].entries # <<>>
        <4>1. m[s].name = NoText => e # 0
          BY <1>3, <3>1 DEF IsPlace
        <4> QED BY <2>2, <2>4, <3>1, <4>1
      <3>3. DOMAIN U[s].entries = 1..e
        BY <2>2, <2>4, <3>1
      <3>4. ASSUME NEW i \in 1..e
            PROVE  /\ i \in DOMAIN m[s].entries /\ U[s].entries[i].key = m[s].entries[i].key
                   /\ IsRead(U[s].entries[i].value, m[s].entries[i].value)
                   /\ Unended(U[s].entries[i].value) => <<s, i>> \in last
        <4>1. i \in DOMAIN m[s].entries
          BY <1>2, <2>1, <2>4, <3>1
        <4>2. CASE i = e
          <5>1. <<s, i>> = LastPlace(U)
            BY <1>4, <3>1, <4>2 DEF LastPlace
          <5> QED BY <1>2, <1>3, <2>1, <2>4, <3>1, <4>1, <4>2, <5>1
        <4>3. CASE i # e
          <5>1. U[s].entries[i] = M[s].entries[i] /\ i < e
            BY <3>1, <4>3
          <5>2. /\ U[s].entries[i].key = m[s].entries[i].key
                /\ U[s].entries[i].value = WithoutEnd(m[s].entries[i].value)
            BY <1>2, <2>1, <2>4, <4>1, <5>1
          <5>3. IsRead(U[s].entries[i].value, m[s].entries[i].value)
            BY <2>1, <2>4, <4>1, <5>2, LoadedValues
          <5>4. Unended(U[s].entries[i].value) => <<s, i>> = LastPlace(m)
            BY <2>1, <2>4, <4>1, <5>2, LoadedValues
          <5>5. <<s, i>> # LastPlace(m)
            <6> SUFFICES ASSUME <<s, i>> = LastPlace(m) PROVE FALSE
              OBVIOUS
            <6>1. s = Len(m) /\ i = Len(m[s].entries)
              BY DEF LastPlace
            <6>2. e =< Len(m[s].entries) /\ e \in Nat /\ i \in Nat
              BY <1>2, <2>1, <2>4, <3>1
            <6> QED BY <5>1, <6>1, <6>2
          <5> QED BY <4>1, <5>2, <5>3, <5>4, <5>5
        <4> QED BY <4>2, <4>3
      <3> QED BY <1>2, <2>1, <2>2, <2>4, <3>1, <3>2, <3>3, <3>4
    <2> QED BY <2>3, <2>4
  <1>6. EntriesRead(U, m)
    BY <1>4, <1>5 DEF EntriesRead
  <1>7. \A i, j \in DOMAIN U : i # j => U[i].name # U[j].name
    BY <1>1, <1>5 DEF Tidy
  <1>8. ASSUME NEW j \in DOMAIN U PROVE TidySection(U[j], j, last)
    <2> HIDE DEF last
    <2>1. j \in DOMAIN m /\ TidySection(m[j], j, open)
      BY <1>1, <1>5 DEF Tidy
    <2>2. DistinctKeys(U[j].entries)
      BY <1>5, <2>1 DEF TidySection, DistinctKeys
    <2>3. ASSUME NEW i \in DOMAIN U[j].entries
          PROVE  TidyEntry(U[j].entries[i], <<j, i>> \in last)
      <3> DEFINE w == U[j].entries[i].value
                 v == m[j].entries[i].value
      <3>1. /\ i \in DOMAIN m[j].entries /\ U[j].entries[i].key = m[j].entries[i].key
            /\ IsRead(w, v)
            /\ Unended(w) => <<j, i>> \in last
        BY <1>5
      <3>2. v[1].name = m[j].entries[i].key
        BY <2>1, <3>1, LoadedValues
      <3> HIDE DEF v
      <3> QED BY <3>1, <3>2 DEF TidyEntry, IsRead
    <2> QED BY <1>5, <2>1, <2>2, <2>3 DEF TidySection
  <1>9. Tidy(U, last)
    <2> HIDE DEF last
    <2> QED BY <1>4, <1>7, <1>8 DEF Tidy
  <1> QED BY <1>6, <1>9

-----------------------------------------------------------------------------
(* The keys of the identity: ConfigFile *)

\* The names of the keys of a pair.
KeyNames == {"public_key_pem", "private_key_pem"}

\* Whether entry e of section s is one of these keys of the identity.
IsKey(m, s, e, keys) ==
    /\ s \in DOMAIN m /\ e \in DOMAIN m[s].entries
    /\ m[s].name = "security" /\ m[s].entries[e].key \in keys

\* The places of these keys.
KeyPlaces(m, keys) == {p \in Nat \X Nat : IsKey(m, p[1], p[2], keys)}

\* Nothing but the keys of the identity has several lines.
OnlyKeys(m) ==
    \A s \in DOMAIN m : \A e \in DOMAIN m[s].entries :
        m[s].entries[e].value[1].kind = "pem" => IsKey(m, s, e, KeyNames)

\* What a process has of a file: only the last entry may lack its last line.
Good(m) == Settled(m) /\ OnlyKeys(m)

\* All keys but these have been set to a pair.
Renewed(m, pair, keys) ==
    /\ Tidy(m, KeyPlaces(m, keys)) /\ OnlyKeys(m)
    /\ \A s \in DOMAIN m : \A e \in DOMAIN m[s].entries :
          m[s].entries[e].value[1].kind = "pem" =>
              \/ IsKey(m, s, e, keys)
              \/ m[s].entries[e].value = PEM(m[s].entries[e].key, pair)

\* A key of a pair is there.
HasKey(m, key, pair) ==
    \E s \in DOMAIN m : \E e \in DOMAIN m[s].entries :
        IsKey(m, s, e, {key}) /\ m[s].entries[e].value = PEM(key, pair)

\* The lines of a key.
LEMMA LinesOfKey ==
    ASSUME NEW key \in KeyNames, NEW pair \in Nat
    PROVE  LET v == PEM(key, pair)
           IN  /\ v \in Seq(AnyLine) /\ Len(v) = 4 /\ v # <<>>
               /\ v[1].kind = "pem" /\ v[1].name = key
               /\ v[2].kind = "body" /\ v[2].text = pair
               /\ v[3].kind = "end" /\ v[4].kind = "blank"
               /\ HasEnd(v)
  <1> DEFINE v == PEM(key, pair)
             a == Line("pem", key, "BEGIN")
             b == Line("body", NoText, pair)
             c == Line("end", NoText, "END")
             d == Blank
  <1>1. /\ a \in AnyLine /\ a.kind = "pem" /\ a.name = key
        /\ b \in AnyLine /\ b.kind = "body" /\ b.text = pair
        /\ c \in AnyLine /\ c.kind = "end" /\ d \in AnyLine /\ d.kind = "blank"
    BY DEF KeyNames, Line, Blank, AnyLine, LineKinds, LineNames, LineTexts
  <1>2. v = <<a, b, c, d>>
    BY DEF PEM
  <1> HIDE DEF v, a, b, c, d
  <1>3. /\ v \in Seq(AnyLine) /\ Len(v) = 4 /\ v[1] = a /\ v[2] = b /\ v[3] = c /\ v[4] = d
    BY <1>1, <1>2
  <1>4. HasEnd(v)
    <2>1. \A k \in 1..(3 - 1) : k = 1 \/ k = 2
      OBVIOUS
    <2>2. \A k \in 1..(3 - 1) : v[k].kind # "end"
      BY <1>1, <1>3, <2>1
    <2>3. 3 \in 2..Len(v) /\ 3 + 1 = Len(v)
      BY <1>3
    <2>4. v[Len(v)].kind = "blank"
      BY <1>1, <1>3
    <2>5. v[1].kind = "pem" /\ v[3].kind = "end"
      BY <1>1, <1>3
    <2> QED BY <2>2, <2>3, <2>4, <2>5 DEF HasEnd
  <1>5. v # <<>>
    BY <1>3
  <1> QED BY <1>1, <1>3, <1>4, <1>5 DEF v

\* The keys are all to be set, at first.
LEMMA GoodIsToBeRenewed ==
    ASSUME NEW m, Good(m), NEW pair
    PROVE  Renewed(m, pair, KeyNames)
  <1> DEFINE open == {LastPlace(m)}
             K == KeyPlaces(m, KeyNames)
  <1>1. Tidy(m, open) /\ OnlyKeys(m)
    BY DEF Good, Settled
  <1> HIDE DEF open
  <1>2. m \in Seq(FileSection) /\ DOMAIN m \subseteq Nat
    BY <1>1 DEF Tidy
  <1>3. ASSUME NEW s \in DOMAIN m, NEW e \in DOMAIN m[s].entries
        PROVE  TidyEntry(m[s].entries[e], <<s, e>> \in K)
    <2>1. TidyEntry(m[s].entries[e], <<s, e>> \in open)
      BY <1>1 DEF Tidy, TidySection
    <2>2. ASSUME Unended(m[s].entries[e].value) PROVE <<s, e>> \in K
      <3>1. IsKey(m, s, e, KeyNames)
        BY <1>1, <2>2 DEF OnlyKeys, Unended
      <3>2. s \in Nat /\ e \in Nat
        <4>1. m[s] \in FileSection
          BY <1>2
        <4>2. m[s].entries \in Seq(FileEntry)
          BY <4>1 DEF FileSection
        <4> QED BY <1>2, <4>2
      <3>3. <<s, e>> \in Nat \X Nat /\ <<s, e>>[1] = s /\ <<s, e>>[2] = e
        BY <3>2
      <3> QED BY <3>1, <3>3 DEF KeyPlaces
    <2> QED BY <2>1, <2>2 DEF TidyEntry
  <1>4. Tidy(m, K)
    <2> HIDE DEF K
    <2> QED BY <1>1, <1>3 DEF Tidy, TidySection
  <1> QED BY <1>1, <1>4 DEF Renewed, OnlyKeys

\* What is tidy without exception is settled.
LEMMA TidyIsSettled ==
    ASSUME NEW m, Tidy(m, {})
    PROVE  Settled(m)
  <1> DEFINE open == {LastPlace(m)}
  <1>1. ASSUME NEW s \in DOMAIN m, NEW e \in DOMAIN m[s].entries
        PROVE  /\ TidyEntry(m[s].entries[e], <<s, e>> \in open)
               /\ ~Unended(m[s].entries[e].value)
    <2> DEFINE v == m[s].entries[e].value
    <2>1. TidyEntry(m[s].entries[e], <<s, e>> \in {})
      BY DEF Tidy, TidySection
    <2>2. Plain(v) \/ HasEnd(v)
      BY <2>1 DEF TidyEntry
    <2>3. ~Unended(v)
      <3> HIDE DEF v
      <3> QED BY <2>2 DEF Plain, HasEnd, Unended
    <2> QED BY <2>1, <2>2, <2>3 DEF TidyEntry
  <1>2. Tidy(m, open)
    <2> HIDE DEF open
    <2> QED BY <1>1 DEF Tidy, TidySection
  <1>3. SolidEnds(m)
    BY <1>1 DEF SolidEnds
  <1> QED BY <1>2, <1>3 DEF Settled

\* When they have all been set, nothing is left open.
LEMMA RenewedIsGood ==
    ASSUME NEW m, NEW pair, Renewed(m, pair, {})
    PROVE  Good(m) /\ Tidy(m, {})
  <1>1. KeyPlaces(m, {}) = {}
    BY DEF KeyPlaces, IsKey
  <1>2. Tidy(m, {}) /\ OnlyKeys(m)
    BY <1>1 DEF Renewed
  <1> QED BY <1>2, TidyIsSettled DEF Good

\* A key that is there is found by the next process.
LEMMA KeyIsFound ==
    ASSUME NEW m, NEW open, Tidy(m, open), NEW key \in KeyNames, NEW pair \in Nat,
           HasKey(m, key, pair)
    PROVE  Get(Loaded(m), "security", key) = WithoutEnd(PEM(key, pair))
  <1> DEFINE M == Loaded(m)
             section == "security"
             f == FindSection(M, section)
             g == FindEntry(M[f], key)
  <1>10. PICK s \in DOMAIN m : \E e \in DOMAIN m[s].entries :
            IsKey(m, s, e, {key}) /\ m[s].entries[e].value = PEM(key, pair)
    BY DEF HasKey
  <1>1. PICK e \in DOMAIN m[s].entries :
            IsKey(m, s, e, {key}) /\ m[s].entries[e].value = PEM(key, pair)
    BY <1>10
  <1>2. m[s].name = section /\ m[s].entries[e].key = key
    BY <1>1 DEF IsKey
  <1>3. /\ m \in Seq(FileSection) /\ M \in Seq(FileSection) /\ Len(M) = Len(m)
        /\ \A i \in DOMAIN m : M[i].name = m[i].name
        /\ M[s].entries \in Seq(FileEntry) /\ Len(M[s].entries) = Len(m[s].entries)
        /\ m[s].entries \in Seq(FileEntry)
        /\ \A i \in DOMAIN m[s].entries :
              /\ M[s].entries[i].key = m[s].entries[i].key
              /\ M[s].entries[i].value = WithoutEnd(m[s].entries[i].value)
    BY LoadedFacts
  <1> HIDE DEF M
  <1>4. DOMAIN M = DOMAIN m /\ DOMAIN M[s].entries = DOMAIN m[s].entries
    BY <1>3
  <1>5. f = s
    <2>1. /\ f = 0 => \A i \in DOMAIN M : M[i].name # section
          /\ f # 0 => f \in DOMAIN M /\ M[f].name = section
      <3> HIDE DEF section
      <3> QED BY <1>3, SectionFound
    <2> HIDE DEF f, section
    <2> QED BY <1>2, <1>3, <1>4, <2>1 DEF Tidy
  <1>6. g = e
    <2> DEFINE h == FindEntry(M[s], key)
    <2>1. /\ h = 0 => \A i \in DOMAIN M[s].entries : M[s].entries[i].key # key
          /\ h # 0 => h \in DOMAIN M[s].entries /\ M[s].entries[h].key = key
      <3> DEFINE x == M[s]
      <3>1. x.entries \in Seq(FileEntry)
        BY <1>3
      <3> HIDE DEF x
      <3>2. /\ FindEntry(x, key) = 0 => \A i \in DOMAIN x.entries : x.entries[i].key # key
            /\ FindEntry(x, key) # 0 => /\ FindEntry(x, key) \in DOMAIN x.entries
                                        /\ x.entries[FindEntry(x, key)].key = key
        BY <3>1, EntryFound
      <3> QED BY <3>2 DEF x
    <2>2. DistinctKeys(m[s].entries)
      BY DEF Tidy, TidySection
    <2> HIDE DEF h
    <2>3. h = e
      BY <1>2, <1>3, <1>4, <2>1, <2>2 DEF DistinctKeys
    <2> QED BY <1>5, <2>3 DEF h
  <1>7. s # 0 /\ e # 0
    BY <1>3
  <1>8. M[s].entries[e].value = WithoutEnd(PEM(key, pair))
    BY <1>1, <1>3
  <1> HIDE DEF f, g
  <1>9. f # 0 /\ g # 0 /\ M[f].entries[g].value = WithoutEnd(PEM(key, pair))
    BY <1>5, <1>6, <1>7, <1>8
  <1> QED BY <1>9 DEF Get, f, g, M, section

\* The pair that a process finds in its settings.
FoundIn(m) ==
    LoadFromPEM(Get(m, "security", "public_key_pem"), Get(m, "security", "private_key_pem"))

\* A pair whose keys are both there is found.
LEMMA PairIsFound ==
    ASSUME NEW m, NEW open, Tidy(m, open), NEW pair \in Nat,
           HasKey(m, "public_key_pem", pair), HasKey(m, "private_key_pem", pair)
    PROVE  FoundIn(Loaded(m)) = pair
  <1> DEFINE pub == "public_key_pem"
             priv == "private_key_pem"
  <1>1. pub \in KeyNames /\ priv \in KeyNames /\ HasKey(m, pub, pair) /\ HasKey(m, priv, pair)
    BY DEF KeyNames
  <1>2. FoundIn(Loaded(m)) = LoadFromPEM(Get(Loaded(m), "security", pub),
                                         Get(Loaded(m), "security", priv))
    BY DEF FoundIn
  <1> HIDE DEF pub, priv
  <1>3. ASSUME NEW key \in KeyNames
        PROVE  LET u == WithoutEnd(PEM(key, pair))
               IN  /\ Len(u) = 3 /\ u # <<>> /\ u[2].kind = "body" /\ u[2].text = pair
                   /\ u[3].kind = "end"
    <2> DEFINE v == PEM(key, pair)
               u == SubSeq(v, 1, 3)
    <2>1. /\ v \in Seq(AnyLine) /\ Len(v) = 4 /\ v # <<>>
          /\ v[2].kind = "body" /\ v[2].text = pair
          /\ v[3].kind = "end" /\ v[4].kind = "blank"
      BY <1>3, LinesOfKey
    <2> HIDE DEF v
    <2>2. 3 \in 1..Len(v) /\ 3 + 1 = Len(v) /\ v[Len(v)].kind = "blank"
      BY <2>1
    <2>3. WithoutEnd(v) = u
      BY <2>1, <2>2, WithoutEndFacts
    <2>4. Len(u) = 3 /\ u[2] = v[2] /\ u[3] = v[3]
      BY <2>1
    <2> HIDE DEF u
    <2>5. u # <<>>
      BY <2>4
    <2> QED BY <2>1, <2>3, <2>4, <2>5 DEF v
  <1>4. /\ Get(Loaded(m), "security", pub) = WithoutEnd(PEM(pub, pair))
        /\ Get(Loaded(m), "security", priv) = WithoutEnd(PEM(priv, pair))
    BY <1>1, KeyIsFound
  <1> DEFINE u == WithoutEnd(PEM(pub, pair))
             v == WithoutEnd(PEM(priv, pair))
  <1>5. u # <<>>
    BY <1>1, <1>3
  <1>6. Len(v) = 3 /\ v[2].kind = "body" /\ v[2].text = pair /\ v[3].kind = "end"
    BY <1>1, <1>3
  <1>7. FoundIn(Loaded(m)) = LoadFromPEM(u, v)
    BY <1>2, <1>4
  <1> HIDE DEF u, v
  <1>8. LoadFromPEM(u, v) = pair
    BY <1>5, <1>6 DEF LoadFromPEM
  <1> QED BY <1>7, <1>8

\* The section of the keys is there, or is appended.
WithSecurity(m) ==
    IF FindSection(m, "security") # 0 THEN m
    ELSE Append(m, [name |-> "security", comment |-> NoText, entries |-> <<>>])
\* Its number.
SecurityOf(m) ==
    IF FindSection(m, "security") # 0 THEN FindSection(m, "security") ELSE Len(m) + 1

\* It is there then, and all else is as it was.
LEMMA SecurityIsThere ==
    ASSUME NEW m, NEW open, Tidy(m, open)
    PROVE  LET U == WithSecurity(m)
               s == SecurityOf(m)
           IN  /\ U \in Seq(FileSection) /\ s \in DOMAIN U /\ U[s].name = "security"
               /\ \A e : TidyBut(U, s, e, open)
               /\ \A i \in DOMAIN m : i \in DOMAIN U /\ U[i] = m[i]
               /\ s \in DOMAIN m \/ (s \notin DOMAIN m /\ U[s].entries = <<>>)
               /\ \A i \in DOMAIN U \ {s} : i \in DOMAIN m /\ m[i].name # "security"
  <1> DEFINE name == "security"
             U == WithSecurity(m)
             s == SecurityOf(m)
             f == FindSection(m, name)
             x == [name |-> name, comment |-> NoText, entries |-> <<>>]
  <1>1. m \in Seq(FileSection) /\ Len(m) \in Nat /\ DOMAIN m = 1..Len(m)
    BY DEF Tidy
  <1>2. x \in FileSection /\ x.name = name /\ x.comment = NoText /\ x.entries = <<>>
        /\ name # NoText
    BY DEF FileSection, LineNames, LineTexts, NoText
  <1>3. U = (IF f # 0 THEN m ELSE Append(m, x)) /\ s = IF f # 0 THEN f ELSE Len(m) + 1
    BY DEF WithSecurity, SecurityOf
  <1>4. /\ f = 0 => \A i \in DOMAIN m : m[i].name # name
        /\ f # 0 => f \in DOMAIN m /\ m[f].name = name
    <2> HIDE DEF name
    <2> QED BY <1>1, SectionFound
  <1> HIDE DEF U, s, f, x, name
  <1>5. CASE f # 0
    <2>1. U = m /\ s = f /\ s \in DOMAIN m /\ m[s].name = name
      BY <1>3, <1>4, <1>5
    <2>2. \A e : TidyBut(m, s, e, open)
      BY <2>1, TidyIsTidyBut
    <2>3. \A i \in DOMAIN m \ {s} : m[i].name # name
      BY <2>1 DEF Tidy
    <2> QED BY <1>1, <2>1, <2>2, <2>3 DEF U, s, name
  <1>6. CASE f = 0
    <2>1. U = Append(m, x) /\ s = Len(m) + 1
      BY <1>3, <1>6
    <2>2. /\ U \in Seq(FileSection) /\ Len(U) = s /\ U[s] = x /\ s \in DOMAIN U /\ s \notin DOMAIN m
          /\ \A i \in DOMAIN m : i \in DOMAIN U /\ U[i] = m[i] /\ i # s
          /\ \A i \in DOMAIN U \ {s} : i \in DOMAIN m
      BY <1>1, <1>2, <2>1
    <2>3. \A i \in DOMAIN m : m[i].name # name
      BY <1>4, <1>6
    <2>4. \A i, j \in DOMAIN U : i # j => U[i].name # U[j].name
      BY <1>2, <2>2, <2>3 DEF Tidy
    <2>5. \A i \in DOMAIN U \ {s} : TidySection(U[i], i, open)
      BY <2>2 DEF Tidy
    <2>6. U[s].entries = <<>> /\ U[s].name = name /\ DOMAIN U[s].entries = {}
      BY <1>2, <2>2
    <2>7. \A e : TidyBut(U, s, e, open)
      BY <1>2, <2>2, <2>4, <2>5, <2>6 DEF TidyBut, DistinctKeys
    <2> QED BY <2>2, <2>3, <2>6, <2>7 DEF U, s, name
  <1> QED BY <1>5, <1>6

\* A key is set: one less is to be renewed.
LEMMA SetRenews ==
    ASSUME NEW m, NEW pair \in Nat, NEW keys, Renewed(m, pair, keys), NEW key \in KeyNames
    PROVE  LET R == Set(m, "security", key, PEM(key, pair))
           IN  /\ Renewed(R, pair, keys \ {key}) /\ HasKey(R, key, pair)
               /\ \A k \in KeyNames \ {key} : HasKey(m, k, pair) => HasKey(R, k, pair)
  <1> DEFINE name == "security"
             v == PEM(key, pair)
             R == Set(m, name, key, v)
             U == WithSecurity(m)
             s == SecurityOf(m)
             e == PlaceOf(U[s], key)
             f == FindEntry(U[s], key)
             comment == IF f = 0 THEN NoText ELSE U[s].entries[f].comment
             K == KeyPlaces(m, keys)
             L == KeyPlaces(R, keys \ {key})
  <1>1. Tidy(m, K) /\ OnlyKeys(m) /\ m \in Seq(FileSection)
    BY DEF Renewed, Tidy
  <1>2. /\ U \in Seq(FileSection) /\ s \in DOMAIN U /\ U[s].name = name
        /\ \A o : TidyBut(U, s, o, K)
        /\ \A i \in DOMAIN m : i \in DOMAIN U /\ U[i] = m[i]
        /\ s \in DOMAIN m \/ (s \notin DOMAIN m /\ U[s].entries = <<>>)
        /\ \A i \in DOMAIN U \ {s} : i \in DOMAIN m /\ m[i].name # name
    <2> HIDE DEF K, U, s
    <2> QED BY <1>1, SecurityIsThere DEF U, s
  <1>3. R = WithEntry(U, s, key, v, comment)
    <2> DEFINE n == FindSection(m, name)
    <2>1. n = 0 => Len(U) = Len(m) + 1
      BY <1>1 DEF WithSecurity
    <2>2. R = LET all == IF n # 0 THEN m
                         ELSE Append(m, [name |-> name, comment |-> NoText, entries |-> <<>>])
                  place == IF n = 0 THEN Len(all) ELSE n
                  g == FindEntry(all[place], key)
              IN  WithEntry(all, place, key, v,
                            IF g = 0 THEN NoText ELSE all[place].entries[g].comment)
      BY DEF Set
    <2>3. CASE n = 0
      <3>1. s = Len(U) /\ U = Append(m, [name |-> name, comment |-> NoText, entries |-> <<>>])
        BY <2>1, <2>3 DEF SecurityOf, WithSecurity
      <3> QED BY <2>2, <2>3, <3>1
    <2>4. CASE n # 0
      <3>1. s = n /\ U = m
        BY <2>4 DEF SecurityOf, WithSecurity
      <3> QED BY <2>2, <2>4, <3>1
    <2> QED BY <2>3, <2>4
  <1>4. /\ v \in Seq(AnyLine) /\ v # <<>> /\ v[1].name = key /\ v[1].kind = "pem" /\ HasEnd(v)
    BY LinesOfKey
  <1>5. key \in LineNames /\ key \in KeyNames
    BY DEF KeyNames, LineNames
  <1> HIDE DEF v, U, s, R, name
  <1>6. U[s].entries \in Seq(FileEntry) /\ DistinctKeys(U[s].entries)
    <2>1. U[s] \in FileSection
      BY <1>2
    <2>2. DistinctKeys(U[s].entries)
      BY <1>2 DEF TidyBut
    <2> QED BY <2>1, <2>2 DEF FileSection
  <1>7. comment \in LineTexts
    <2>1. f # 0 => f \in DOMAIN U[s].entries
      <3> DEFINE x == U[s]
      <3>1. x.entries \in Seq(FileEntry)
        BY <1>6
      <3> HIDE DEF x
      <3>2. FindEntry(x, key) # 0 => FindEntry(x, key) \in DOMAIN x.entries
        BY <3>1, EntryFound
      <3> QED BY <3>2 DEF x
    <2>2. f # 0 => U[s].entries[f] \in FileEntry
      BY <1>6, <2>1
    <2> HIDE DEF f
    <2> QED BY <2>2 DEF FileEntry, LineTexts
  <1> DEFINE entry == [key |-> key, value |-> v, comment |-> comment]
  <1> HIDE DEF comment, f, e
  <1>8. R[s].entries[e] = entry /\ ChangedAt(U, R, s, e)
    <2>1. EntrySet(U, R, s, key, v, comment)
      BY <1>2, <1>3, <1>4, <1>5, <1>6, <1>7, WithEntryFacts
    <2> QED BY <2>1 DEF EntrySet, e, entry
  <1>9. R[s].entries[e].key = key /\ R[s].entries[e].value = v
    BY <1>8
  <1> HIDE DEF entry
  <1>10. /\ R \in Seq(FileSection) /\ DOMAIN R = DOMAIN U /\ R[s].name = name
         /\ e \in DOMAIN R[s].entries /\ DOMAIN U[s].entries \subseteq DOMAIN R[s].entries
         /\ \A i \in DOMAIN U : i # s => R[i] = U[i]
         /\ \A i \in DOMAIN R[s].entries \ {e} :
               /\ i \in DOMAIN U[s].entries /\ R[s].entries[i] = U[s].entries[i]
               /\ R[s].entries[i].key # key
    BY <1>2, <1>8, <1>9 DEF ChangedAt
  <1>11. \A i \in DOMAIN R \ {s} : i \in DOMAIN m /\ R[i] = m[i] /\ m[i].name # name
    BY <1>2, <1>10
  <1>12. ASSUME NEW i \in DOMAIN R[s].entries \ {e}
         PROVE  /\ s \in DOMAIN m /\ i \in DOMAIN m[s].entries
                /\ R[s].entries[i] = m[s].entries[i] /\ m[s].name = name
    BY <1>2, <1>10
  <1>13. ASSUME NEW a, NEW b, IsKey(m, a, b, keys), <<a, b>> # <<s, e>>
         PROVE  IsKey(R, a, b, keys \ {key})
    <2>1. a \in DOMAIN m /\ b \in DOMAIN m[a].entries /\ m[a].name = name
          /\ m[a].entries[b].key \in keys
      BY <1>13 DEF IsKey, name
    <2>2. a = s
      BY <1>2, <2>1
    <2>3. b \in DOMAIN R[s].entries \ {e} /\ R[s].entries[b] = m[s].entries[b]
      BY <1>2, <1>10, <1>13, <2>1, <2>2
    <2> QED BY <1>2, <1>10, <2>1, <2>2, <2>3 DEF IsKey, name
  <1>14. K \ {<<s, e>>} \subseteq L
    <2> SUFFICES ASSUME NEW p \in K \ {<<s, e>>} PROVE p \in L
      BY Zenon
    <2>1. p \in Nat \X Nat /\ IsKey(m, p[1], p[2], keys) /\ p = <<p[1], p[2]>>
      BY DEF KeyPlaces
    <2>2. <<p[1], p[2]>> # <<s, e>>
      BY <2>1
    <2>3. IsKey(R, p[1], p[2], keys \ {key})
      BY <1>13, <2>1, <2>2
    <2> QED BY <2>1, <2>3 DEF KeyPlaces
  <1>15. Tidy(R, L)
    <2>1. TidyEntry(R[s].entries[e], <<s, e>> \in L)
      BY <1>4, <1>9 DEF TidyEntry
    <2>2. TidyBut(U, s, e, K)
      BY <1>2
    <2> HIDE DEF K, L
    <2> QED BY <1>8, <1>14, <2>1, <2>2, TidyChanged
  <1>16. ASSUME NEW i \in DOMAIN R, NEW j \in DOMAIN R[i].entries,
                R[i].entries[j].value[1].kind = "pem"
         PROVE  /\ IsKey(R, i, j, KeyNames)
                /\ \/ IsKey(R, i, j, keys \ {key})
                   \/ R[i].entries[j].value = PEM(R[i].entries[j].key, pair)
    <2>1. CASE i = s /\ j = e
      BY <1>5, <1>9, <1>10, <2>1 DEF IsKey, name, v
    <2>2. CASE ~(i = s /\ j = e)
      <3>1. /\ i \in DOMAIN m /\ j \in DOMAIN m[i].entries /\ R[i].entries[j] = m[i].entries[j]
            /\ R[i].name = m[i].name /\ <<i, j>> # <<s, e>>
        BY <1>10, <1>11, <1>12, <1>16, <2>2
      <3>2. /\ IsKey(m, i, j, KeyNames)
            /\ IsKey(m, i, j, keys) \/ m[i].entries[j].value = PEM(m[i].entries[j].key, pair)
        BY <1>1, <1>16, <3>1 DEF OnlyKeys, Renewed
      <3>3. IsKey(R, i, j, KeyNames)
        BY <1>16, <3>1, <3>2 DEF IsKey
      <3> QED BY <1>13, <3>1, <3>2, <3>3
    <2> QED BY <2>1, <2>2
  <1>17. Renewed(R, pair, keys \ {key})
    BY <1>15, <1>16 DEF Renewed, OnlyKeys
  <1>18. HasKey(R, key, pair)
    BY <1>2, <1>9, <1>10 DEF HasKey, IsKey, name, v
  <1>19. ASSUME NEW k \in KeyNames \ {key}, HasKey(m, k, pair) PROVE HasKey(R, k, pair)
    <2>1. PICK a \in DOMAIN m : \E b \in DOMAIN m[a].entries :
              IsKey(m, a, b, {k}) /\ m[a].entries[b].value = PEM(k, pair)
      BY <1>19 DEF HasKey
    <2>2. PICK b \in DOMAIN m[a].entries :
              IsKey(m, a, b, {k}) /\ m[a].entries[b].value = PEM(k, pair)
      BY <2>1
    <2>3. m[a].name = name /\ m[a].entries[b].key = k /\ a = s
      BY <1>2, <2>2 DEF IsKey, name
    <2>4. b \in DOMAIN U[s].entries /\ U[s] = m[s]
      BY <1>2, <2>3
    <2>5. b # e
      <3> SUFFICES ASSUME b = e PROVE FALSE
        OBVIOUS
      <3>1. U[s].entries[e].key # key
        BY <1>19, <2>3, <2>4
      <3>2. f = 0
        <4> DEFINE x == U[s]
        <4>1. x.entries \in Seq(FileEntry)
          BY <1>6
        <4> HIDE DEF x
        <4>2. FindEntry(x, key) # 0 => x.entries[FindEntry(x, key)].key = key
          BY <4>1, EntryFound
        <4> QED BY <3>1, <4>2 DEF x, f, e, PlaceOf
      <3>3. e = Len(U[s].entries) + 1
        BY <3>2 DEF e, f, PlaceOf
      <3> QED BY <1>6, <2>4, <3>3
    <2>6. b \in DOMAIN R[s].entries /\ R[s].entries[b] = m[s].entries[b]
      BY <1>10, <2>4, <2>5
    <2> QED BY <1>2, <1>10, <2>2, <2>3, <2>6 DEF HasKey, IsKey
  <1> QED BY <1>17, <1>18, <1>19 DEF R, v, name

\* A new pair is set: nothing is left open, and both keys are there.
LEMMA KeysRenewed ==
    ASSUME NEW m, Good(m), NEW pair \in Nat
    PROVE  LET R == WithKeys(m, pair)
           IN  /\ Renewed(R, pair, {})
               /\ HasKey(R, "public_key_pem", pair) /\ HasKey(R, "private_key_pem", pair)
  <1> DEFINE pub == "public_key_pem"
             priv == "private_key_pem"
             A == Set(m, "security", pub, PEM(pub, pair))
             R == Set(A, "security", priv, PEM(priv, pair))
  <1>1. pub \in KeyNames /\ priv \in KeyNames /\ pub # priv
        /\ (KeyNames \ {pub}) \ {priv} = {}
    BY DEF KeyNames
  <1>2. Renewed(m, pair, KeyNames)
    BY GoodIsToBeRenewed
  <1>3. R = WithKeys(m, pair)
    BY DEF WithKeys
  <1> HIDE DEF pub, priv, R, A
  <1>4. Renewed(A, pair, KeyNames \ {pub}) /\ HasKey(A, pub, pair)
    BY <1>1, <1>2, SetRenews DEF A
  <1> DEFINE left == KeyNames \ {pub}
  <1>5. Renewed(A, pair, left)
    BY <1>4
  <1> HIDE DEF left
  <1>6. /\ Renewed(R, pair, left \ {priv}) /\ HasKey(R, priv, pair)
        /\ \A k \in KeyNames \ {priv} : HasKey(A, k, pair) => HasKey(R, k, pair)
    BY <1>1, <1>5, SetRenews DEF R
  <1>7. left \ {priv} = {}
    BY <1>1 DEF left
  <1>8. HasKey(R, pub, pair)
    BY <1>1, <1>4, <1>6
  <1> QED BY <1>3, <1>6, <1>7, <1>8 DEF pub, priv

\* What has been read of any file is tidy, but for the entry that is being read.
LEMMA ReadAllKeeps ==
    ASSUME NEW f \in Seq(AnyLine), \A i \in DOMAIN f : IsNamed(f[i])
    PROVE  ReadInv(ReadAll(f))
  <1> DEFINE Keeps(n) == ReadInv(ReadAll(SubSeq(f, 1, n)))
             Bad == {n \in Nat : n =< Len(f) /\ ~Keeps(n)}
  <1>1. Len(f) \in Nat /\ DOMAIN f = 1..Len(f)
    OBVIOUS
  <1>2. ReadInv(Reading)
    <2>1. <<>> \in Seq(FileSection) /\ DOMAIN <<>> = {} /\ Len(<<>>) = 0
      OBVIOUS
    <2>2. Tidy(<<>>, {})
      BY <2>1 DEF Tidy
    <2> QED BY <2>1, <2>2 DEF ReadInv, Reading, LineTexts
  <1>3. Bad = {}
    <2> SUFFICES ASSUME Bad # {} PROVE FALSE
      OBVIOUS
    <2>1. PICK k \in Bad : \A i \in Bad : k =< i
      BY LeastNumber
    <2>2. k \in Nat /\ k =< Len(f) /\ ~Keeps(k)
      BY <2>1
    <2>3. CASE k = 0
      <3>1. SubSeq(f, 1, 0) = <<>>
        BY SubSeqEmpty
      <3> QED BY <1>2, <2>2, <2>3, <3>1, NothingRead
    <2>4. CASE k # 0
      <3> DEFINE j == k - 1
                 a == SubSeq(f, 1, j)
                 line == f[j + 1]
      <3>1. j \in Nat /\ j < k /\ j < Len(f) /\ j + 1 = k /\ j + 1 \in DOMAIN f
        BY <1>1, <2>2, <2>4
      <3>2. j \notin Bad
        <4> HIDE DEF Bad, j
        <4> QED BY <2>1, <2>2, <3>1
      <3>3. Keeps(j)
        <4> HIDE DEF j, Keeps
        <4> QED BY <1>1, <3>1, <3>2
      <3> HIDE DEF j
      <3>4. a \in Seq(AnyLine) /\ Append(a, line) = SubSeq(f, 1, k)
        BY <1>1, <3>1, SubSeqSteps
      <3>5. line \in AnyLine /\ IsNamed(line)
        BY <3>1
      <3>6. ReadInv(ReadAll(a))
        BY <3>3
      <3> HIDE DEF a, line
      <3>7. ReadInv(ReadLine(ReadAll(a), line))
        BY <3>5, <3>6, ReadLineKeeps
      <3>8. ReadAll(Append(a, line)) = ReadLine(ReadAll(a), line)
        BY <3>4, <3>5, ReadSteps
      <3> QED BY <2>2, <3>4, <3>7, <3>8
    <2> QED BY <2>3, <2>4
  <1>4. SubSeq(f, 1, Len(f)) = f
    BY SubSeqFull
  <1>5. Len(f) \notin Bad /\ Len(f) =< Len(f)
    BY <1>1, <1>3
  <1> HIDE DEF Keeps
  <1>6. Keeps(Len(f))
    BY <1>1, <1>5
  <1> QED BY <1>4, <1>6 DEF Keeps

\* No settings are good settings.
LEMMA NothingIsGood == Good(<<>>)
  <1>1. <<>> \in Seq(FileSection) /\ DOMAIN <<>> = {}
    OBVIOUS
  <1>2. Tidy(<<>>, {})
    BY <1>1 DEF Tidy
  <1>3. OnlyKeys(<<>>)
    BY <1>1 DEF OnlyKeys
  <1> QED BY <1>2, <1>3, TidyIsSettled DEF Good

\* What is read of the files of users is good.
LEMMA WrittenIsGood ==
    ASSUME PlainlyWritten, NEW f \in Written
    PROVE  Good(Load(f))
  <1>1. CASE f = NoFile
    BY <1>1, NothingIsGood DEF Load
  <1>2. CASE f # NoFile
    <2> DEFINE r == ReadAll(f)
               m == r.sections
               open == IF r.pem = 0 THEN {} ELSE {<<r.current, r.pem>>}
    <2>1. Len(f) \in Nat /\ f = [i \in 1..Len(f) |-> f[i]] /\ \A i \in 1..Len(f) : IsLine(f[i])
      BY <1>2, ConfigAssumption DEF IsFile
    <2>2. \A i \in 1..Len(f) : f[i] \in AnyLine /\ IsNamed(f[i])
      BY <2>1 DEF IsLine, Line, AnyLine, LineKinds, LineNames, LineTexts
    <2>3. f \in Seq(AnyLine) /\ \A i \in DOMAIN f : IsNamed(f[i])
      <3> HIDE DEF AnyLine
      <3>1. f \in [1..Len(f) -> AnyLine]
        BY <2>1, <2>2
      <3>2. f \in Seq(AnyLine)
        BY <2>1, <3>1, SeqDef
      <3> QED BY <2>1, <2>2, <3>2
    <2>4. ReadInv(r)
      BY <2>3, ReadAllKeeps
    <2>5. Tidy(m, open)
      BY <2>4 DEF ReadInv
    <2>6. m = Load(f)
      BY <1>2 DEF Load
    <2> HIDE DEF m, open, r
    <2>7. ASSUME NEW s \in DOMAIN m, NEW e \in DOMAIN m[s].entries,
                 m[s].entries[e].value[1].kind = "pem"
          PROVE  /\ IsKey(m, s, e, KeyNames)
                 /\ \E k \in DOMAIN m[s].entries[e].value : m[s].entries[e].value[k].kind = "end"
      BY <2>6, <2>7 DEF PlainlyWritten, IsKey, KeyNames
    <2>8. OnlyKeys(m)
      BY <2>7 DEF OnlyKeys
    <2>9. ASSUME NEW s \in DOMAIN m, NEW e \in DOMAIN m[s].entries
          PROVE  TidyEntry(m[s].entries[e], <<s, e>> \in {})
      <3> DEFINE v == m[s].entries[e].value
      <3>1. TidyEntry(m[s].entries[e], <<s, e>> \in open)
        BY <2>5 DEF Tidy, TidySection
      <3>2. v \in Seq(AnyLine)
        BY <2>5, LoadedFacts
      <3>3. v[1].kind = "pem" => \E k \in DOMAIN v : v[k].kind = "end"
        BY <2>7
      <3>4. ~Unended(v)
        <4> HIDE DEF v
        <4> QED BY <3>2, <3>3 DEF Unended
      <3> QED BY <3>1, <3>4 DEF TidyEntry
    <2>10. Tidy(m, {})
      <3> DEFINE none == {}
      <3>1. \A s \in DOMAIN m : \A e \in DOMAIN m[s].entries :
                TidyEntry(m[s].entries[e], <<s, e>> \in none)
        BY <2>9
      <3> HIDE DEF none
      <3>2. Tidy(m, none)
        BY <2>5, <3>1 DEF Tidy, TidySection
      <3> QED BY <3>2 DEF none
    <2> QED BY <2>6, <2>8, <2>10, TidyIsSettled DEF Good
  <1> QED BY <1>1, <1>2

\* Save writes lines, and not that there is no file.
LEMMA TextIsLines ==
    ASSUME NEW m, Settled(m)
    PROVE  Text(m) \in Seq(AnyLine) /\ NoFile \notin Seq(AnyLine)
  <1>1. m \in Seq(FileSection) /\ 0 \in 0..Len(m)
    BY DEF Settled, Tidy
  <1>2. Text(m) \in Seq(AnyLine)
    BY <1>1, SectionTextsWritten, AfterSteps
  <1>3. NoFile \notin Seq(AnyLine)
    <2> DEFINE f == NoFile
               a == Line("no file", NoText, NoText)
    <2>1. f = <<a>>
      BY DEF NoFile
    <2>2. a \notin AnyLine
      BY DEF Line, AnyLine, LineKinds
    <2> HIDE DEF f, a
    <2>3. f \notin Seq(AnyLine)
      <3> SUFFICES ASSUME f \in Seq(AnyLine) PROVE FALSE
        OBVIOUS
      <3>1. Len(f) = 1 /\ f[1] = a
        BY <2>1
      <3>2. f[1] \in AnyLine
        BY <3>1
      <3> QED BY <2>2, <3>1, <3>2
    <2> QED BY <2>3 DEF f
  <1> QED BY <1>2, <1>3

\* What is saved wholly is read as it was.
LEMMA SavedIsLoaded ==
    ASSUME NEW m, Settled(m)
    PROVE  Load(Text(m)) = Loaded(m)
  <1> DEFINE T == Text(m)
             n == Len(T)
  <1>1. T \in Seq(AnyLine) /\ T # NoFile /\ n \in 0..Len(T) /\ n \in Nat
    BY TextIsLines
  <1>2. At(m, ReadAll(SubSeq(T, 1, n)), SubSeq(T, n + 1, Len(T)))
    BY <1>1, ReadsPrefix
  <1> HIDE DEF T
  <1>3. SubSeq(T, 1, n) = T
    BY <1>1, SubSeqFull
  <1>4. SubSeq(T, n + 1, Len(T)) = <<>>
    <2>1. n + 1 \in Int /\ Len(T) \in Int /\ n + 1 > Len(T)
      BY <1>1
    <2> QED BY <2>1, SubSeqEmpty
  <1>5. ReadAll(T).sections = Loaded(m)
    BY <1>2, <1>3, <1>4, ReadToEnd
  <1>6. Load(T) = ReadAll(T).sections
    BY <1>1 DEF Load
  <1> QED BY <1>5, <1>6 DEF T

\* What is saved in part is read as far as it goes, and is good.
LEMMA CutIsGood ==
    ASSUME NEW m, NEW pair \in Nat, Renewed(m, pair, {}), NEW n \in 0..Len(Text(m))
    PROVE  LET U == Load(SubSeq(Text(m), 1, n))
           IN  Good(U) /\ EntriesRead(U, m)
  <1> DEFINE T == Text(m)
             f == SubSeq(T, 1, n)
             U == Load(f)
  <1>1. Good(m) /\ Settled(m)
    BY RenewedIsGood DEF Good
  <1>2. T \in Seq(AnyLine) /\ NoFile \notin Seq(AnyLine)
    BY <1>1, TextIsLines
  <1>3. f \in Seq(AnyLine)
    <2> HIDE DEF T
    <2>1. n \in 0..Len(T)
      BY DEF T
    <2> QED BY <1>2, <2>1, PrefixIs
  <1>4. At(m, ReadAll(f), SubSeq(T, n + 1, Len(T)))
    BY <1>1, ReadsPrefix
  <1> HIDE DEF f, T
  <1>5. U = ReadAll(f).sections
    BY <1>2, <1>3 DEF Load
  <1>6. PICK s, e \in Nat : \E u : ReadPart(U, m, s, e, u)
    BY <1>1, <1>4, <1>5, PartRead
  <1>7. PICK u : ReadPart(U, m, s, e, u)
    BY <1>6
  <1> HIDE DEF U
  <1>8. EntriesRead(U, m) /\ Tidy(U, {LastPlace(U)})
    BY <1>1, <1>7, PartReads
  <1>9. ASSUME NEW i \in DOMAIN U, NEW j \in DOMAIN U[i].entries,
               U[i].entries[j].value[1].kind = "pem"
        PROVE  LET w == U[i].entries[j].value
               IN  /\ IsKey(U, i, j, KeyNames)
                   /\ Unended(w) => w[Len(w)].kind # "blank"
    <2> DEFINE w == U[i].entries[j].value
               v == m[i].entries[j].value
               key == m[i].entries[j].key
    <2>1. /\ i \in DOMAIN m /\ U[i].name = m[i].name
          /\ j \in DOMAIN m[i].entries /\ U[i].entries[j].key = key
          /\ IsRead(w, v)
      BY <1>8 DEF EntriesRead
    <2>2. v[1].kind = "pem"
      BY <1>9, <2>1 DEF IsRead
    <2>3. IsKey(m, i, j, KeyNames) /\ ~IsKey(m, i, j, {}) /\ v = PEM(key, pair)
      BY <2>1, <2>2 DEF Renewed, OnlyKeys, IsKey
    <2>4. IsKey(U, i, j, KeyNames) /\ key \in KeyNames
      BY <2>1, <2>3 DEF IsKey
    <2>5. v[1].kind = "pem" /\ v[2].kind = "body" /\ v[3].kind = "end"
      BY <2>3, <2>4, LinesOfKey
    <2>6. w \in Seq(AnyLine) /\ w # <<>> /\ w = SubSeq(v, 1, Len(w)) /\ Len(w) \in Nat \ {0}
      BY <2>1 DEF IsRead
    <2> HIDE DEF w, v
    <2>7. \A k \in 1..Len(w) : w[k] = v[k]
      <3> DEFINE l == Len(w)
      <3>1. l \in Nat /\ w = SubSeq(v, 1, l)
        BY <2>6
      <3> HIDE DEF l
      <3>2. \A k \in 1..l : w[k] = v[k]
        BY <3>1
      <3> QED BY <3>2 DEF l
    <2>8. ASSUME Unended(w) PROVE w[Len(w)].kind # "blank"
      <3>1. ~(3 =< Len(w))
        BY <2>5, <2>6, <2>7, <2>8 DEF Unended
      <3>2. Len(w) = 1 \/ Len(w) = 2
        BY <2>6, <3>1
      <3>3. w[Len(w)] = v[Len(w)]
        BY <2>7, <3>2
      <3>4. CASE Len(w) = 1
        BY <2>5, <3>3, <3>4
      <3>5. CASE Len(w) = 2
        BY <2>5, <3>3, <3>5
      <3> QED BY <3>2, <3>4, <3>5
    <2> QED BY <2>4, <2>8 DEF w
  <1>10. OnlyKeys(U)
    BY <1>9 DEF OnlyKeys
  <1>11. SolidEnds(U)
    BY <1>9 DEF SolidEnds, Unended
  <1>12. Good(U)
    BY <1>8, <1>10, <1>11 DEF Good, Settled
  <1> QED BY <1>8, <1>12 DEF U, f, T

-----------------------------------------------------------------------------
(* The configuration over any number of starts: ConfigFile *)

\* While a pair is saved, it is in m_sections, and none has been kept.
Saving ==
    step \in {"save", "write"} =>
        /\ kept = 0 /\ identity \in Nat /\ Renewed(m_sections, identity, {})
        /\ HasKey(m_sections, "public_key_pem", identity)
        /\ HasKey(m_sections, "private_key_pem", identity)

\* The file is what has been written of the text.
Writing ==
    step = "write" =>
        \E n \in 0..Len(Text(m_sections)) :
            /\ file = SubSeq(Text(m_sections), 1, n)
            /\ unsaved = SubSeq(Text(m_sections), n + 1, Len(Text(m_sections)))

\* What is in the file at all times, and what every process finds there.
ConfigInv ==
    /\ generated \in Nat /\ Good(Load(file)) /\ Good(m_sections)
    /\ Saving /\ Writing
    /\ kept # 0 => FoundIn(Load(file)) = kept
    /\ step = "identity" => m_sections = Load(file)
    /\ step = "running" /\ kept # 0 => identity = kept

\* At first there is what users have written.
LEMMA ConfigStarts ==
    ASSUME PlainlyWritten, ConfigInit
    PROVE  ConfigInv
  <1>1. file \in Written /\ m_sections = <<>> /\ step = "down" /\ kept = 0 /\ generated = 0
    BY DEF ConfigInit
  <1>2. Good(Load(file)) /\ Good(m_sections)
    BY <1>1, WrittenIsGood, NothingIsGood
  <1> QED BY <1>1, <1>2 DEF ConfigInv, Saving, Writing

\* A pair that is kept is found, and so no other one is generated.
LEMMA IdentityStep ==
    ASSUME ConfigInv, LoadIdentity
    PROVE  ConfigInv'
  <1>1. step = "identity" /\ m_sections = Load(file) /\ file' = file /\ kept' = kept
        /\ generated \in Nat /\ Good(m_sections)
    BY DEF LoadIdentity, ConfigInv
  <1>2. Found = FoundIn(Load(file))
    BY <1>1 DEF Found, FoundIn
  <1>3. kept # 0 => Found = kept
    BY <1>2 DEF ConfigInv
  <1>4. CASE Found # 0 /\ identity' = Found /\ step' = "running"
             /\ UNCHANGED <<m_sections, generated>>
    BY <1>1, <1>2, <1>3, <1>4 DEF ConfigInv, Saving, Writing
  <1>5. CASE /\ Found = 0 /\ identity' = generated + 1 /\ generated' = generated + 1
             /\ m_sections' = WithKeys(m_sections, generated + 1)
             /\ step' = "save"
    <2> DEFINE pair == generated + 1
               R == WithKeys(m_sections, pair)
    <2>1. pair \in Nat /\ kept = 0
      BY <1>1, <1>3, <1>5
    <2> HIDE DEF pair
    <2>2. /\ Renewed(R, pair, {})
          /\ HasKey(R, "public_key_pem", pair) /\ HasKey(R, "private_key_pem", pair)
      BY <1>1, <2>1, KeysRenewed
    <2> HIDE DEF R
    <2>3. Good(R)
      BY <2>2, RenewedIsGood
    <2>4. m_sections' = R /\ identity' = pair /\ generated' = pair
      BY <1>5 DEF R, pair
    <2>5. Saving'
      BY <1>1, <2>1, <2>2, <2>4 DEF Saving
    <2> QED BY <1>1, <1>5, <2>1, <2>3, <2>4, <2>5 DEF ConfigInv, Writing
  <1>6. CASE Found = 0 /\ identity' = 0 /\ step' = "running"
             /\ UNCHANGED <<m_sections, generated>>
    BY <1>1, <1>2, <1>3, <1>6 DEF ConfigInv, Saving, Writing
  <1> QED BY <1>4, <1>5, <1>6 DEF LoadIdentity

\* The file that is opened is empty.
LEMMA OpenStep ==
    ASSUME ConfigInv, OpenFile
    PROVE  ConfigInv'
  <1>1. step = "save" /\ kept = 0 /\ UNCHANGED <<m_sections, identity, generated, kept>>
        /\ identity \in Nat /\ Renewed(m_sections, identity, {}) /\ Good(m_sections)
    BY DEF OpenFile, ConfigInv, Saving
  <1>2. CASE file' = <<>> /\ unsaved' = Text(m_sections) /\ step' = "write"
    <2> DEFINE T == Text(m_sections)
    <2>1. T \in Seq(AnyLine) /\ NoFile \notin Seq(AnyLine)
      BY <1>1, TextIsLines DEF Good
    <2> HIDE DEF T
    <2>2. SubSeq(T, 1, 0) = <<>> /\ SubSeq(T, 0 + 1, Len(T)) = T /\ 0 \in 0..Len(T)
      BY <2>1, SubSeqFull, SubSeqEmpty
    <2>3. Load(file') = <<>>
      <3>1. <<>> # NoFile
        <4>1. <<>> \in Seq(AnyLine)
          OBVIOUS
        <4> QED BY <2>1, <4>1
      <3>2. ReadAll(<<>>).sections = <<>>
        BY NothingRead DEF Reading
      <3> QED BY <1>2, <3>1, <3>2 DEF Load
    <2>4. Writing'
      BY <1>1, <1>2, <2>2 DEF Writing, T
    <2>5. Saving'
      BY <1>1, <1>2 DEF Saving, ConfigInv
    <2>6. Good(Load(file'))
      BY <2>3, NothingIsGood
    <2> QED BY <1>1, <1>2, <2>4, <2>5, <2>6 DEF ConfigInv
  <1>3. CASE UNCHANGED <<file, unsaved>> /\ step' = "running"
    BY <1>1, <1>3 DEF ConfigInv, Saving, Writing
  <1> QED BY <1>2, <1>3 DEF OpenFile

\* A line is written, or there are no more, and the pair is kept.
LEMMA WriteStep ==
    ASSUME ConfigInv, WriteLine
    PROVE  ConfigInv'
  <1> DEFINE T == Text(m_sections)
  <1>1. step = "write" /\ kept = 0 /\ UNCHANGED <<m_sections, identity, generated>>
        /\ identity \in Nat /\ Renewed(m_sections, identity, {})
        /\ HasKey(m_sections, "public_key_pem", identity)
        /\ HasKey(m_sections, "private_key_pem", identity)
    BY DEF WriteLine, ConfigInv, Saving
  <1>2. Good(m_sections) /\ Settled(m_sections) /\ Tidy(m_sections, {})
    BY <1>1, RenewedIsGood DEF Good
  <1>3. PICK n \in 0..Len(T) : file = SubSeq(T, 1, n) /\ unsaved = SubSeq(T, n + 1, Len(T))
    BY <1>1 DEF ConfigInv, Writing
  <1>4. T \in Seq(AnyLine) /\ Len(T) \in Nat /\ n \in Nat
    <2>1. T \in Seq(AnyLine)
      BY <1>2, TextIsLines
    <2> HIDE DEF T
    <2> QED BY <2>1
  <1>5. CASE unsaved = <<>> /\ step' = "running" /\ kept' = identity /\ UNCHANGED <<file, unsaved>>
    <2>1. file = T
      <3> HIDE DEF T
      <3>1. n = Len(T)
        <4> SUFFICES ASSUME n # Len(T) PROVE FALSE
          OBVIOUS
        <4>1. n < Len(T)
          BY <1>4
        <4> QED BY <1>3, <1>4, <1>5, <4>1, SubSeqSteps
      <3> QED BY <1>3, <1>4, <3>1, SubSeqFull
    <2>2. Load(file) = Loaded(m_sections)
      BY <1>2, <2>1, SavedIsLoaded
    <2> DEFINE none == {}
    <2>3. Tidy(m_sections, none)
      BY <1>2
    <2> HIDE DEF none
    <2>4. FoundIn(Load(file)) = identity
      BY <1>1, <2>2, <2>3, PairIsFound
    <2> QED BY <1>1, <1>5, <2>4 DEF ConfigInv, Saving, Writing
  <1>6. CASE unsaved # <<>> /\ file' = Append(file, Head(unsaved)) /\ unsaved' = Tail(unsaved)
             /\ UNCHANGED <<step, kept>>
    <2> DEFINE k == n + 1
    <2> HIDE DEF T
    <2>1. n < Len(T)
      <3> SUFFICES ASSUME ~(n < Len(T)) PROVE FALSE
        OBVIOUS
      <3>1. n + 1 \in Int /\ Len(T) \in Int /\ n + 1 > Len(T)
        BY <1>4
      <3> QED BY <1>3, <1>6, <3>1, SubSeqEmpty
    <2>2. /\ unsaved \in Seq(AnyLine) /\ unsaved # <<>> /\ unsaved[1] = T[n + 1]
          /\ Tail(unsaved) = SubSeq(T, n + 2, Len(T))
          /\ Append(file, T[n + 1]) = SubSeq(T, 1, n + 1)
      BY <1>3, <1>4, <2>1, SubSeqSteps
    <2>3. Head(unsaved) = T[n + 1]
      BY <2>2
    <2>4. k \in 0..Len(T) /\ n + 2 = k + 1
      BY <1>4, <2>1
    <2>5. file' = SubSeq(T, 1, k) /\ unsaved' = SubSeq(T, k + 1, Len(T))
      BY <1>6, <2>2, <2>3, <2>4
    <2> HIDE DEF k
    <2>6. T' = T
      BY <1>1 DEF T
    <2>7. Good(Load(file'))
      <3>1. k \in 0..Len(Text(m_sections)) /\ file' = SubSeq(Text(m_sections), 1, k)
        BY <2>4, <2>5 DEF T
      <3> QED BY <1>1, <3>1, CutIsGood
    <2>8. Writing'
      <3>1. /\ k \in 0..Len(Text(m_sections)') /\ file' = SubSeq(Text(m_sections)', 1, k)
            /\ unsaved' = SubSeq(Text(m_sections)', k + 1, Len(Text(m_sections)'))
        BY <2>4, <2>5, <2>6 DEF T
      <3> QED BY <3>1 DEF Writing
    <2>9. Saving'
      BY <1>1, <1>6 DEF Saving, ConfigInv
    <2> QED BY <1>1, <1>6, <2>7, <2>8, <2>9 DEF ConfigInv
  <1> QED BY <1>5, <1>6 DEF WriteLine

\* Every step keeps it.
LEMMA ConfigSteps ==
    ASSUME ConfigInv, [ConfigNext]_configVars
    PROVE  ConfigInv'
  <1>1. CASE LoadConfig
    BY <1>1 DEF LoadConfig, ConfigInv, Saving, Writing
  <1>2. CASE LoadIdentity
    BY <1>2, IdentityStep
  <1>3. CASE OpenFile
    BY <1>3, OpenStep
  <1>4. CASE WriteLine
    BY <1>4, WriteStep
  <1>5. CASE End
    BY <1>5, NothingIsGood DEF End, ConfigInv, Saving, Writing
  <1>6. CASE UNCHANGED configVars
    BY <1>6 DEF configVars, ConfigInv, Saving, Writing
  <1> QED BY <1>1, <1>2, <1>3, <1>4, <1>5, <1>6 DEF ConfigNext

\* A file that is saved, wholly or in part, is what later processes read: a cut save
\* is a prefix of the text, and what was being read at its end is a part of a key.
LEMMA InvSurvives ==
    ASSUME ConfigInv
    PROVE  SettingsSurvive
  <1>1. SettingsReload
    BY SavedIsLoaded DEF SettingsReload, ConfigInv, Good
  <1>2. CutSaveReadsBack
    <2> SUFFICES ASSUME step = "write" PROVE EntriesRead(Load(file), m_sections)
      BY DEF CutSaveReadsBack, EntriesRead, IsRead
    <2>1. identity \in Nat /\ Renewed(m_sections, identity, {})
      BY DEF ConfigInv, Saving
    <2>2. PICK n \in 0..Len(Text(m_sections)) : file = SubSeq(Text(m_sections), 1, n)
      BY DEF ConfigInv, Writing
    <2> QED BY <2>1, <2>2, CutIsGood
  <1> QED BY <1>1, <1>2 DEF SettingsSurvive

\* What is in the file, and what Load has of it, at every step of any number of
\* processes, each of which may be killed while it saves: main, Config::Load,
\* Config::Save and Identity::LoadFromPEM.
THEOREM ConfigInvariant == ASSUME PlainlyWritten PROVE ConfigSpec => []ConfigInv
  <1>1. ConfigInit => ConfigInv
    BY ConfigStarts
  <1>2. ConfigInv /\ [ConfigNext]_configVars => ConfigInv'
    BY ConfigSteps
  <1> QED BY <1>1, <1>2, PTL DEF ConfigSpec

\* IdentityIsKept: a pair that Config::Save has written is the one that
\* Identity::LoadFromPEM gives every later process, and no other one is generated.
THEOREM IdentityKept == ASSUME PlainlyWritten PROVE ConfigSpec => []IdentityIsKept
  <1>1. ConfigInv => IdentityIsKept
    BY DEF ConfigInv, Saving, IdentityIsKept
  <1> QED BY <1>1, ConfigInvariant, PTL

\* SettingsSurvive: Config::Load reads what Config::Save has written, and of a cut
\* save all that was written.
THEOREM SettingsKept == ASSUME PlainlyWritten PROVE ConfigSpec => []SettingsSurvive
  <1>1. ConfigInv => SettingsSurvive
    BY InvSurvives
  <1> QED BY <1>1, ConfigInvariant, PTL
==============================================================================
