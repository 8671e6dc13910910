------------------------------ MODULE AgentMemory ------------------------------
(***************************************************************************)
(* The texts an agent keeps: its identity, the summary of its session, the *)
(* conversation, and an archive of files: the operations of                *)
(* src/inference/MemoryManager.cpp on them, the line numbers under which   *)
(* ContextBuilder.cpp shows them to the language model, and the life of    *)
(* the InferenceEngine and the LlamaContext that hold the memory.          *)
(*                                                                         *)
(* Identity and session summary are files, rewritten whole by every edit:  *)
(* opened, which empties the file, and then written, one after the other.  *)
(* The process may be killed at any moment and started again.              *)
(*                                                                         *)
(* What is abstracted: a text is a sequence of words and ends of lines; a  *)
(* word is one token.  The name of an archive file is what                 *)
(* SanitizeFilename makes of it, its content is its name.  A file can      *)
(* always be opened.                                                       *)
(*                                                                         *)
(* WriteArchiveFile and SearchArchive hold m_mutex and call functions that *)
(* take it again, which std::mutex does not allow: the thread blocks for   *)
(* ever or an exception that nobody catches ends the process.  Relocks     *)
(* holds these outcomes; with "succeeds" in it the module says what the    *)
(* operations do once the mutex is a recursive one.                        *)
(***************************************************************************)
EXTENDS Selection, SequencesExt

CONSTANTS
    Words,          \* the words that are appended or put in place of lines
    NL,             \* the end of a line
    DELETE,         \* the replacement "[DELETE]"
    Absent,         \* a file that does not exist
    Names,          \* the names that are given for archive files
    Safe(_),        \* the name that SanitizeFilename makes of one
    Relocks,        \* what locking an owned mutex does
    n_ctx,          \* context size in tokens; 2048 in the code
    max_archive_files, \* 100 in the code
    MaxText         \* bound on the length of a text

ASSUME AgentMemoryAssumption ==
    /\ {NL, DELETE} \cap Words = {} /\ Absent \notin Seq(Words \cup {NL})
    /\ Relocks \subseteq {"blocks", "throws", "succeeds"}
    /\ n_ctx \in Nat /\ max_archive_files \in Nat /\ MaxText \in Nat \ {0}

VARIABLES
    identity_txt,      \* models/identity.txt
    session_txt,       \* models/session_summary.txt
    archive,           \* the .txt files of the archive directory
    up,                \* whether the process runs
    m_identity,
    m_session_summary,
    m_conversation,
    m_initialized,     \* of the memory manager
    engine,            \* "down", "failed" or "ready": the engine and its model
    saving,            \* where SaveToDisk is
    thread,            \* "free", "blocked" in the mutex, or "exiting"
    saved              \* history: the texts at the last load or complete save

memory == <<m_identity, m_session_summary, m_conversation>>
disk == <<identity_txt, session_txt, archive>>
memoryVars == <<disk, memory, up, m_initialized, engine, saving, thread, saved>>

Texts == UNION {[1..k -> Words \cup {NL}] : k \in 0..MaxText}

MemoryTypeOK ==
    /\ identity_txt \in Texts \cup {Absent} /\ session_txt \in Texts \cup {Absent}
    /\ archive \subseteq {Safe(n) : n \in Names}
    /\ m_identity \in Texts /\ m_session_summary \in Texts /\ m_conversation \in Texts
    /\ up \in BOOLEAN /\ m_initialized \in BOOLEAN
    /\ engine \in {"down", "failed", "ready"}
    /\ saving \in {"no", "identity", "identity_open", "session", "session_open"}
    /\ thread \in {"free", "blocked", "exiting"}
    /\ saved \in [identity : Texts, session : Texts]

MemoryInit ==
    /\ identity_txt = Absent /\ session_txt = Absent /\ archive = {}
    /\ m_identity = <<>> /\ m_session_summary = <<>> /\ m_conversation = <<>>
    /\ up = TRUE /\ m_initialized = FALSE /\ engine = "down"
    /\ saving = "no" /\ thread = "free"
    /\ saved = [identity |-> <<>>, session |-> <<>>]

Ready == up /\ thread = "free" /\ saving = "no"

-----------------------------------------------------------------------------
(* Lines *)

\* Where a line ends: std::getline until the end; an end of line at the end
\* begins no line.
LineEnds(text) == {i \in DOMAIN text : text[i] = NL \/ i = Len(text)}

Lines(text) ==
    LET ends == Ordered(LineEnds(text))
        last(k) == IF text[ends[k]] = NL THEN ends[k] - 1 ELSE ends[k]
    IN  [k \in DOMAIN ends |-> SubSeq(text, IF k = 1 THEN 1 ELSE ends[k - 1] + 1, last(k))]

\* The text that is rebuilt from lines, without an end of line at its end.
Rebuilt(lines) ==
    FlattenSeq([i \in DOMAIN lines |-> IF i = 1 THEN lines[i] ELSE <<NL>> \o lines[i]])

Sections == {"identity", "session", "conversation"}

SectionText(s) ==
    CASE s = "identity" -> m_identity
      [] s = "session" -> m_session_summary
      [] s = "conversation" -> m_conversation

Section(s) == Lines(SectionText(s))

Size(s) == Cardinality(LineEnds(SectionText(s)))

\* BuildNumberedContext: the number under which the first line of a section is
\* shown.  A header takes a number, an empty line does not; an empty section
\* shows one numbered line.
ShownFirst(s) ==
    LET Shown(t) == IF Size(t) = 0 THEN 1 ELSE Size(t)
    IN  CASE s = "identity" -> 2
          [] s = "session" -> 3 + Shown("identity")
          [] s = "conversation" -> 4 + Shown("identity") + Shown("session")

\* ApplyReplaceCommand: the number at which it lets a section start, counting a
\* header and the empty line after a section.
SectionStart(s) ==
    CASE s = "identity" -> 1
      [] s = "session" -> 3 + Size("identity")
      [] s = "conversation" -> 5 + Size("identity") + Size("session")

\* The header counts in the end of a section, and not in the numbers of its lines.
SectionEnd(s) == SectionStart(s) + Size(s)

Overlaps(s, start_line, end_line) ==
    start_line =< SectionEnd(s) /\ end_line >= SectionStart(s)

TotalLines == 7 + Size("identity") + Size("session") + Size("conversation")

\* The section a command changes: the first that it overlaps.
Sought(start_line, end_line) ==
    CASE start_line < 1 \/ end_line < start_line \/ start_line > TotalLines -> "none"
      [] OTHER -> IF Overlaps("identity", start_line, end_line) THEN "identity"
                  ELSE IF Overlaps("session", start_line, end_line) THEN "session"
                  ELSE IF Overlaps("conversation", start_line, end_line) THEN "conversation"
                  ELSE "none"

\* The lines of it that it replaces, by their place in the section.
Replaced(s, start_line, end_line) ==
    {i \in 1..Size(s) : SectionStart(s) + i - 1 \in start_line..end_line}

\* Each of them becomes the replacement, or goes.
WithReplaced(s, start_line, end_line, replacement) ==
    LET hit == Replaced(s, start_line, end_line)
        kept == IF replacement = DELETE THEN 1..Size(s) \ hit ELSE 1..Size(s)
        places == Ordered(kept)
    IN  Rebuilt([p \in DOMAIN places |->
                    IF places[p] \in hit THEN <<replacement>> ELSE Section(s)[places[p]]])

-----------------------------------------------------------------------------
(* The disk *)

Content(file) == IF file = Absent THEN <<>> ELSE file

\* Only a memory that is initialised is saved.
SaveToDisk == saving' = IF m_initialized THEN "identity" ELSE "no"

\* Mutant: both files are opened before they are written.
OpenIdentityAndSession ==
    /\ saving = "identity"
    /\ identity_txt' = <<>> /\ session_txt' = <<>> /\ saving' = "identity_open"
    /\ UNCHANGED <<archive, memory, up, m_initialized, engine, thread, saved>>

\* std::ofstream empties the file, then the text is written.
OpenIdentity ==
    /\ saving = "identity"
    /\ identity_txt' = <<>> /\ saving' = "identity_open"
    /\ UNCHANGED <<session_txt, archive, memory, up, m_initialized, engine, thread, saved>>

WriteIdentity ==
    /\ saving = "identity_open"
    /\ identity_txt' = m_identity /\ saving' = "session"
    /\ UNCHANGED <<session_txt, archive, memory, up, m_initialized, engine, thread, saved>>

OpenSession ==
    /\ saving = "session"
    /\ session_txt' = <<>> /\ saving' = "session_open"
    /\ UNCHANGED <<identity_txt, archive, memory, up, m_initialized, engine, thread, saved>>

WriteSession ==
    /\ saving = "session_open"
    /\ session_txt' = m_session_summary /\ saving' = "no"
    /\ saved' = [identity |-> m_identity, session |-> m_session_summary]
    /\ UNCHANGED <<identity_txt, archive, memory, up, m_initialized, engine, thread>>

\* A file that is there takes the place of the text; the conversation starts anew.
LoadFromDisk ==
    /\ m_identity' = IF identity_txt = Absent THEN m_identity ELSE identity_txt
    /\ m_session_summary' = IF session_txt = Absent THEN m_session_summary ELSE session_txt
    /\ m_conversation' = <<>>
    /\ saved' = [identity |-> Content(identity_txt), session |-> Content(session_txt)]

-----------------------------------------------------------------------------
(* The texts *)

SetIdentity(content) ==
    /\ Ready
    /\ m_identity' = content
    /\ SaveToDisk
    /\ UNCHANGED <<disk, m_session_summary, m_conversation, up, m_initialized, engine, thread, saved>>

\* Also the command /store.
AppendToIdentity(content) ==
    /\ Len(m_identity) + 1 + Len(content) =< MaxText
    /\ SetIdentity(m_identity \o <<NL>> \o content)

SetSessionSummary(content) ==
    /\ Ready
    /\ m_session_summary' = content
    /\ SaveToDisk
    /\ UNCHANGED <<disk, m_identity, m_conversation, up, m_initialized, engine, thread, saved>>

SetConversation(content) ==
    /\ m_conversation' = content
    /\ UNCHANGED <<disk, m_identity, m_session_summary, up, m_initialized, engine, saving, thread, saved>>

\* What follows a text without an end of line goes on in its last line.
AppendToConversation(content) ==
    /\ Ready
    /\ Len(m_conversation) + Len(content) + 1 =< MaxText
    /\ SetConversation(m_conversation \o content \o <<NL>>)

ClearConversation == Ready /\ SetConversation(<<>>)

\* "replace X-Y with: text": one section is rebuilt; the conversation is not kept
\* on disk.  A range that fits no section changes nothing.
ApplyReplaceCommand(start_line, end_line, replacement) ==
    \E s \in {Sought(start_line, end_line)} \ {"none"} :
    \E text \in {WithReplaced(s, start_line, end_line, replacement)} :
        /\ Ready /\ Len(text) =< MaxText
        /\ m_identity' = IF s = "identity" THEN text ELSE m_identity
        /\ m_session_summary' = IF s = "session" THEN text ELSE m_session_summary
        /\ m_conversation' = IF s = "conversation" THEN text ELSE m_conversation
        /\ IF s = "conversation" THEN UNCHANGED saving ELSE SaveToDisk
        /\ UNCHANGED <<disk, up, m_initialized, engine, thread, saved>>

-----------------------------------------------------------------------------
(* The archive *)

\* The mutex is locked by the thread that holds it.
Relocked ==
    /\ \/ "blocks" \in Relocks /\ thread' = "blocked" /\ UNCHANGED up
       \/ "throws" \in Relocks /\ up' = FALSE /\ UNCHANGED thread
    /\ UNCHANGED <<disk, memory, m_initialized, engine, saving, saved>>

\* A full archive takes no file, not even one that it has.
WriteArchiveFile(filename) ==
    /\ Ready
    /\ \/ Relocked
       \/ /\ "succeeds" \in Relocks
          /\ Cardinality(archive) < max_archive_files
          /\ archive' = archive \cup {Safe(filename)}
          /\ UNCHANGED <<identity_txt, session_txt, memory, up, m_initialized, engine, saving, thread, saved>>

\* The index is taken under the lock, and so is each file; nothing changes when
\* that is allowed.
SearchArchive == Ready /\ Relocked

\* Another program puts a file into the directory.
PlaceArchiveFile(filename) ==
    /\ archive' = archive \cup {Safe(filename)}
    /\ UNCHANGED <<identity_txt, session_txt, memory, up, m_initialized, engine, saving, thread, saved>>

DeleteArchiveFile(filename) ==
    /\ Ready /\ Safe(filename) \in archive
    /\ archive' = archive \ {Safe(filename)}
    /\ UNCHANGED <<identity_txt, session_txt, memory, up, m_initialized, engine, saving, thread, saved>>

-----------------------------------------------------------------------------
(* What the language model is told of its memory *)

Tokens(text) == Cardinality({i \in DOMAIN text : text[i] # NL})

Maximum(percent) == (n_ctx * percent) \div 100

\* compression_threshold is 75.
Warning(text, percent) == Tokens(text) > (Maximum(percent) * 75) \div 100

\* BuildSystemPrompt shows the numbered lines only when one of the texts is large.
AnyWarning ==
    Warning(m_identity, 25) \/ Warning(m_session_summary, 25) \/ Warning(m_conversation, 50)

-----------------------------------------------------------------------------
(* The engine *)

\* InferenceEngine::Initialize: the memory first, then the model, which may not
\* be there or be too large.  After a failure it may be called again, and loads
\* the memory again.
Initialize(outcome) ==
    /\ Ready /\ engine # "ready"
    /\ m_initialized' = TRUE
    /\ LoadFromDisk
    /\ engine' = outcome
    /\ UNCHANGED <<disk, up, saving, thread>>

\* The model is unloaded, the memory stays as it is.
Shutdown ==
    /\ Ready /\ engine = "ready"
    /\ engine' = "down"
    /\ UNCHANGED <<disk, memory, up, m_initialized, saving, thread, saved>>

\* main returns: the engine shuts down and the memory manager saves.
Exit ==
    /\ Ready
    /\ thread' = "exiting" /\ engine' = "down"
    /\ SaveToDisk
    /\ UNCHANGED <<disk, memory, up, m_initialized, saved>>

Exited ==
    /\ up /\ thread = "exiting" /\ saving = "no"
    /\ up' = FALSE
    /\ UNCHANGED <<disk, memory, m_initialized, engine, saving, thread, saved>>

\* The process is killed.
Crash ==
    /\ up
    /\ up' = FALSE /\ saving' = "no"
    /\ UNCHANGED <<disk, memory, m_initialized, engine, thread, saved>>

Start ==
    /\ ~up
    /\ up' = TRUE /\ m_initialized' = FALSE /\ engine' = "down" /\ thread' = "free" /\ saving' = "no"
    /\ m_identity' = <<>> /\ m_session_summary' = <<>> /\ m_conversation' = <<>>
    /\ saved' = [identity |-> Content(identity_txt), session |-> Content(session_txt)]
    /\ UNCHANGED disk

\* Texts of a line.
Contents == {<<w>> : w \in Words}

MemoryNext ==
    \/ \E c \in Contents \cup {<<>>} : SetIdentity(c) \/ SetSessionSummary(c)
    \/ \E c \in Contents : AppendToIdentity(c) \/ AppendToConversation(c)
    \/ ClearConversation
    \/ \E m \in 1..TotalLines : \E n \in m..TotalLines : \E r \in Words \cup {DELETE} :
          ApplyReplaceCommand(m, n, r)
    \/ \E f \in Names : WriteArchiveFile(f) \/ DeleteArchiveFile(f) \/ PlaceArchiveFile(f)
    \/ SearchArchive
    \/ OpenIdentity \/ WriteIdentity \/ OpenSession \/ WriteSession
    \/ \E outcome \in {"failed", "ready"} : Initialize(outcome)
    \/ Shutdown \/ Exit \/ Exited \/ Crash \/ Start

-----------------------------------------------------------------------------
(* Properties *)

\* After any edits, by line or by text, of an initialised memory, and before and
\* after engines that fail to load, what is on disk is what the agent has, unless
\* an edit of it is just being saved.  (A text set before the memory is
\* initialised is only kept if there is no file yet.)
Durable ==
    up /\ m_initialized /\ saving = "no" =>
        /\ identity_txt \in {m_identity, Absent}
        /\ session_txt \in {m_session_summary, Absent}

Torn(file, before, now) == Content(file) \notin {before, now}

\* A crash at any moment of a save loses one of the two texts at most; the other
\* is on disk as it was saved last or as it is now.
CrashLosesOne ==
    up /\ m_initialized =>
        \/ ~Torn(identity_txt, saved.identity, m_identity)
        \/ ~Torn(session_txt, saved.session, m_session_summary)

\* What an edit of the agent leaves behind survives it.
MemorySurvives == Durable /\ CrashLosesOne

-----------------------------------------------------------------------------
(* What the prompt says, and the code does not do *)

\* The line of a section that a replacement of the number n alone changes.
Changed(s, n) == IF Sought(n, n) = s THEN Replaced(s, n, n) ELSE {}

\* "You can reference and replace any line using: replace X-Y with: text"
\* (ContextBuilder.cpp:210, and :193): the number shown with a line is the one by
\* which ApplyReplaceCommand finds it.
NumberedLineIsReplaced ==
    AnyWarning =>
        \A s \in Sections : \A i \in 1..Size(s) : Changed(s, ShownFirst(s) + i - 1) = {i}
=============================================================================
