---------------------------- MODULE ContextBuilder ----------------------------
(***************************************************************************)
(* The context that LlamaContext::Generate puts before the language model  *)
(* in every round: the statements, the rules and a block of status between *)
(* <system status> and </system status>, built by BuildStatementContext    *)
(* and then brought up to date by UpdateSystemStatus, which looks for the  *)
(* first of each mark in the whole text (src/inference/ContextBuilder.cpp).*)
(* A statement holds what the user or the model has said, the marks of the *)
(* block not excluded.                                                     *)
(*                                                                         *)
(* What is abstracted: of a statement, whether it holds one of the marks,  *)
(* or a whole block; of the status, its round; commands only add their     *)
(* report.                                                                 *)
(***************************************************************************)
EXTENDS Integers, Sequences, SequencesExt

CONSTANTS
    LastRound,      \* max_rounds; 20 in the code
    MaxStatements   \* bound on the statements

ASSUME ContextAssumption == LastRound \in Nat \ {0} /\ MaxStatements \in Nat

VARIABLES
    contents,         \* m_statements: of what kind each is
    m_current_round,  \* as the status says it
    loop_round,       \* the round of the loop of Generate
    context,          \* what the model is asked with
    stage             \* where Generate is

contextVars == <<contents, m_current_round, loop_round, context, stage>>

\* With no mark, one of them, or both around a block.
Kinds == {"plain", "open", "close", "block"}

Piece(kind, n) == [kind |-> kind, n |-> n]
Open == Piece("open", 0)
Close == Piece("close", 0)

\* BuildStatusBlock
StatusBlock(current_round) == <<Open, Piece("status", current_round), Close>>

\* A statement and the marks in it.
Shown(i) ==
    LET statement == Piece("statement", i)
    IN  CASE contents[i] = "plain" -> <<statement>>
          [] contents[i] = "open"  -> <<statement, Open>>
          [] contents[i] = "close" -> <<statement, Close>>
          [] contents[i] = "block" -> <<statement, Open, Close>>

\* BuildStatementContext
StatementContext ==
    FlattenSeq([i \in DOMAIN contents |-> Shown(i)]) \o StatusBlock(m_current_round)

\* Mutant: the status stays as it was built.
LeaveSystemStatus(text, current_round) == text

\* The new status ends with the closing mark, and so does what follows it.
UpdateSystemStatus(text, current_round) ==
    LET after_start == SelectInSeq(text, LAMBDA p : p = Open)
        before_end == SelectInSeq(text, LAMBDA p : p = Close)
    IN  IF after_start = 0 \/ before_end = 0 THEN text
        ELSE SubSeq(text, 1, after_start)
               \o <<Piece("status", current_round), Close>>
               \o SubSeq(text, before_end, Len(text))

ContextInit ==
    /\ contents = <<>>
    /\ m_current_round = 0 /\ loop_round = 0
    /\ context = <<>>
    /\ stage = "idle"

ContextTypeOK ==
    /\ contents \in Seq(Kinds) /\ Len(contents) =< MaxStatements
    /\ m_current_round \in 0..LastRound /\ loop_round \in 0..LastRound
    /\ stage \in {"idle", "building", "answering", "recording"}

Prompted ==
    /\ stage = "idle" /\ Len(contents) + 2 =< MaxStatements
    /\ m_current_round' = 0 /\ loop_round' = 0
    /\ stage' = "building"
    /\ UNCHANGED <<contents, context>>

BuildContext ==
    /\ stage = "building"
    /\ context' = UpdateSystemStatus(StatementContext, loop_round)
    /\ stage' = "answering"
    /\ UNCHANGED <<contents, m_current_round, loop_round>>

\* The report of a command is a statement; [CONTINUE] asks for another round.
AnswerWithCommands ==
    /\ stage = "answering" /\ Len(contents) + 3 =< MaxStatements
    /\ contents' = Append(contents, "plain")
    /\ m_current_round' = loop_round + 1
    /\ \/ stage' = "recording" /\ UNCHANGED loop_round
       \/ loop_round + 1 < LastRound /\ stage' = "building" /\ loop_round' = loop_round + 1
    /\ UNCHANGED context

AnswerWithout ==
    /\ stage = "answering"
    /\ stage' = "recording"
    /\ UNCHANGED <<contents, m_current_round, loop_round, context>>

\* The prompt and the answer become statements; the answer may end with what the
\* model has seen of the block.
RecordStatements ==
    /\ stage = "recording"
    /\ \E prompt, answer \in Kinds : contents' = contents \o <<prompt, answer>>
    /\ stage' = "idle"
    /\ UNCHANGED <<m_current_round, loop_round, context>>

ContextNext ==
    Prompted \/ BuildContext \/ AnswerWithCommands \/ AnswerWithout \/ RecordStatements

-----------------------------------------------------------------------------
(* Properties *)

\* Whatever marks were said before, the first block that the model sees is the
\* status of the round it is asked in.
FirstStatusIsCurrent ==
    stage = "answering" =>
        LET start == SelectInSeq(context, LAMBDA p : p = Open)
        IN  start # 0 /\ context[start + 1] = Piece("status", loop_round)

\* Bringing the status up to date takes no statement from the context unless a
\* statement opens a block that it does not close: one that closes a block leads
\* to repetitions only, and of one with a whole block it takes that block.
StatementsAreShown ==
    stage = "answering" /\ (\A i \in DOMAIN contents : contents[i] # "open") =>
        \A i \in DOMAIN contents : Contains(context, Piece("statement", i))

\* What the model is asked with: the status of its round, and all that was said.
ContextIsWhole == FirstStatusIsCurrent /\ StatementsAreShown
=============================================================================
