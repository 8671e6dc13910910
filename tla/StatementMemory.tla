---------------------------- MODULE StatementMemory ----------------------------
(***************************************************************************)
(* The conversation as a list of statements that the language model edits  *)
(* itself: the statement operations of src/inference/MemoryManager.cpp and *)
(* the loop of LlamaContext::Generate that calls them.                     *)
(*                                                                         *)
(* The model names statements by id and edits them by lists and by ranges; *)
(* a range is resolved by position, and ids stop being in order once a     *)
(* summary, with a new id, has taken the place of old statements.          *)
(*                                                                         *)
(* What is abstracted: a statement is the ids of what has been said that   *)
(* it still stands for; the text of the response is the commands found in  *)
(* it.  The session number is 1 for as long as the process lives, and      *)
(* statements are kept in memory only.                                     *)
(*                                                                         *)
(* As written, the patterns of ExtractStatementCommands are malformed (the *)
(* raw string ends at the parenthesis that should close its last group),   *)
(* it throws whatever it is given, nobody catches, and the first response  *)
(* ends the process: PatternsCompile is FALSE of the code as it is.  With  *)
(* TRUE the module says what the statement operations do once the patterns *)
(* are mended.                                                             *)
(***************************************************************************)
EXTENDS Selection, SequencesExt

CONSTANTS
    PatternsCompile, \* whether std::regex accepts the patterns of the commands
    MaxRounds,      \* max_rounds; 20 in the code
    MaxCommands,    \* bound on the commands in a response
    MaxSequence     \* bound on the ids given out

ASSUME MemoryAssumption ==
    /\ PatternsCompile \in BOOLEAN
    /\ MaxRounds \in Nat \ {0} /\ MaxCommands \in Nat /\ MaxSequence \in Nat

VARIABLES
    m_statements,          \* the statements, as they are put before the model
    m_statement_sequence,  \* the next id
    pc,                    \* where Generate is
    round,                 \* its round
    commands,              \* the commands of the response that are still to be executed
    continue,              \* whether the response holds [CONTINUE]
    said,                  \* history: ids of all that became a statement, summaries aside
    deleted                \* history: ids of what was said that has been deleted

vars == <<m_statements, m_statement_sequence, pc, round, commands, continue, said, deleted>>

IDs == 0..MaxSequence

\* A number with more digits than std::stoi takes.
TooLong == MaxSequence + 1

Types == {"USER", "ASSISTANT", "TOOL_REPORT", "TOOL_ERROR", "SUMMARY"}

\* covers: the ids, of statements that were no summaries, that it stands for.
Statement == [id : IDs, type : Types, covers : SUBSET IDs]

Lists == {ids \in SUBSET IDs : Cardinality(ids) \in 1..2}

\* A list of ids is given with a comma at least (the same id twice is possible);
\* a range by its two ends, of any digits.
Commands ==
    [action : {"compress", "delete"}, ids : Lists]
      \cup [action : {"compress", "delete"}, start_id : IDs \cup {TooLong}, end_id : IDs \cup {TooLong}]

IsList(c) == "ids" \in DOMAIN c

TypeOK ==
    /\ m_statements \in Seq(Statement)
    /\ m_statement_sequence \in IDs
    /\ pc \in {"idle", "generating", "executing", "recording", "terminated"}
    /\ round \in 0..MaxRounds
    /\ commands \in Seq(Commands) /\ (pc = "executing" <=> commands # <<>>)
    /\ continue \in BOOLEAN
    /\ said \subseteq IDs /\ deleted \subseteq IDs

Init ==
    /\ m_statements = <<>>
    /\ m_statement_sequence = 0
    /\ pc = "idle"
    /\ round = 0
    /\ commands = <<>>
    /\ continue = FALSE
    /\ said = {}
    /\ deleted = {}

-----------------------------------------------------------------------------
(* MemoryManager *)

\* A statement with its content, under the id that GenerateStatementID returns.
Said(id, type) == [id |-> id, type |-> type, covers |-> {id}]

\* 0 if there is none.
FindStatementByID(id) == SelectInSeq(m_statements, LAMBDA s : s.id = id)

\* The positions from one statement to another, none if either is missing or
\* they stand the other way round.
FindStatementRange(start_id, end_id) ==
    IF FindStatementByID(start_id) = 0 \/ FindStatementByID(end_id) = 0 THEN {}
    ELSE FindStatementByID(start_id)..FindStatementByID(end_id)

\* The positions of a list, none if one of the ids is missing.
FindStatements(ids) ==
    IF \E id \in ids : FindStatementByID(id) = 0 THEN {}
    ELSE {FindStatementByID(id) : id \in ids}

\* The positions a command is about; it fails if there are none.
Target(c) ==
    IF IsList(c) THEN FindStatements(c.ids) ELSE FindStatementRange(c.start_id, c.end_id)

\* Mutant: what is erased reaches one statement too far.
WithoutOneMore(target) ==
    Selected(m_statements, {i \in DOMAIN m_statements \ target : i - 1 \notin target})

Without(target) == Selected(m_statements, DOMAIN m_statements \ target)

Covered(target) == UNION {m_statements[i].covers : i \in target}

Summary(id, target) == [id |-> id, type |-> "SUMMARY", covers |-> Covered(target)]

\* Mutant: the summary takes the place of the last of the statements.
SummaryInLastPlace(id, target) ==
    LET last == CHOOSE i \in target : \A j \in target : j =< i
    IN  InsertAt(Without(target), last - Cardinality(target) + 1, Summary(id, target))

\* ApplyCompressCommand, ApplyCompressIDs: a summary with a new id takes the
\* place of the first of the statements.
Compressed(id, target) ==
    LET first == CHOOSE i \in target : \A j \in target : i =< j
    IN  InsertAt(Without(target), first, Summary(id, target))

-----------------------------------------------------------------------------
(* LlamaContext::Generate *)

Generate ==
    /\ pc = "idle"
    /\ m_statement_sequence + 2 =< MaxSequence
    /\ pc' = "generating"
    /\ round' = 0
    /\ UNCHANGED <<m_statements, m_statement_sequence, commands, continue, said, deleted>>

\* ExtractStatementCommands finds lists to compress, ranges to compress, lists
\* to delete and ranges to delete, in this order whatever their order in the text.
Order(c) ==
    (IF c.action = "delete" THEN 2 ELSE 0) + (IF IsList(c) THEN 0 ELSE 1)

Extracted(cs) == \A i, j \in DOMAIN cs : i < j => Order(cs[i]) =< Order(cs[j])

\* The model answers, with any commands; ids may be known, unknown or guessed.
\* A response without commands ends the loop, [CONTINUE] or not.
GenerateInternal(cs) ==
    /\ pc = "generating"
    /\ Extracted(cs)
    /\ commands' = IF PatternsCompile THEN cs ELSE <<>>
    /\ continue' \in BOOLEAN
    /\ pc' = CASE ~PatternsCompile -> "terminated"
               [] PatternsCompile /\ cs = <<>> -> "recording"
               [] PatternsCompile /\ cs # <<>> -> "executing"
    /\ UNCHANGED <<m_statements, m_statement_sequence, round, said, deleted>>

Report(id, success) == Said(id, IF success THEN "TOOL_REPORT" ELSE "TOOL_ERROR")

\* One command: its effect, if all it names is there, and the report on it.
\* Only a compression that succeeds uses up an id for its summary.
Apply(c) ==
    LET target == Target(c)
        id == m_statement_sequence
        report == IF target # {} /\ c.action = "compress" THEN id + 1 ELSE id
    IN  /\ m_statements' =
             Append(IF target = {} THEN m_statements
                    ELSE IF c.action = "delete" THEN Without(target) ELSE Compressed(id, target),
                    Report(report, target # {}))
        /\ m_statement_sequence' = report + 1
        /\ said' = said \cup {report}
        /\ deleted' = IF c.action = "delete" THEN deleted \cup Covered(target) ELSE deleted

\* FindStatementRange converts both ends of a range before it looks for them,
\* and nobody catches what std::stoi throws.
Throws(c) == ~IsList(c) /\ TooLong \in {c.start_id, c.end_id}

ThrowOutOfRange ==
    /\ pc = "executing"
    /\ Throws(Head(commands))
    /\ commands' = <<>>
    /\ pc' = "terminated"
    /\ UNCHANGED <<m_statements, m_statement_sequence, round, continue, said, deleted>>

\* Whether the model is asked again after its last command.
Repeat == continue /\ round + 1 < MaxRounds

ExecuteCommand ==
    /\ pc = "executing"
    /\ ~Throws(Head(commands))
    /\ Apply(Head(commands))
    /\ commands' = Tail(commands)
    /\ IF Tail(commands) # <<>>
       THEN UNCHANGED <<pc, round>>
       ELSE /\ round' = round + 1
            /\ pc' = IF Repeat THEN "generating" ELSE "recording"
    /\ UNCHANGED continue

\* The prompt and the last response become statements.
Record ==
    /\ pc = "recording"
    /\ m_statements' = m_statements \o <<Said(m_statement_sequence, "USER"),
                                         Said(m_statement_sequence + 1, "ASSISTANT")>>
    /\ m_statement_sequence' = m_statement_sequence + 2
    /\ said' = said \cup {m_statement_sequence, m_statement_sequence + 1}
    /\ pc' = "idle"
    /\ UNCHANGED <<round, commands, continue, deleted>>

\* Commands about ids that have been given out, the next, or no number.
Named == {c \in Commands :
            (IF IsList(c) THEN c.ids ELSE {c.start_id, c.end_id})
              \subseteq 0..m_statement_sequence \cup {TooLong}}

\* There are ids left for n commands and for the record.
Room(n) == m_statement_sequence + 2 * n + 2 =< MaxSequence

Next ==
    \/ Generate
    \/ /\ pc = "generating"
       /\ \E n \in 0..MaxCommands : Room(n) /\ \E cs \in [1..n -> Named] : GenerateInternal(cs)
    \/ ThrowOutOfRange
    \/ ExecuteCommand
    \/ Record

Spec == Init /\ [][Next]_vars

-----------------------------------------------------------------------------
(* Properties *)

IsSummary(s) == s.type = "SUMMARY"

\* Nothing that became a statement gets lost or doubled by any sequence of
\* commands that fail, overlap, name summaries or guess ids: all that was said
\* is a statement of its own, or exactly one summary stands for it, or a command
\* has deleted it; and ids are never given twice.
Accounted ==
    LET positions == DOMAIN m_statements
    IN  /\ said = deleted \cup Covered(positions)
        /\ \A i, j \in positions : i # j =>
              /\ m_statements[i].id # m_statements[j].id
              /\ m_statements[i].covers \cap m_statements[j].covers = {}
        /\ \A i \in positions :
              /\ m_statements[i].covers # {}
              /\ m_statements[i].covers \cap deleted = {}
              /\ IF IsSummary(m_statements[i])
                 THEN \A id \in m_statements[i].covers : id < m_statements[i].id
                 ELSE m_statements[i].covers = {m_statements[i].id}
              /\ m_statements[i].id < m_statement_sequence

First(s) == CHOOSE id \in s.covers : \A other \in s.covers : id =< other

\* The statements stay in the order in which what they stand for was begun,
\* however summaries of summaries were made of statements far apart.
Chronological ==
    \A i, j \in DOMAIN m_statements :
        i < j => First(m_statements[i]) < First(m_statements[j])
=============================================================================
