------------------------------ MODULE ConfigFile ------------------------------
(***************************************************************************)
(* config.ini, and the identity of a node that is kept in it:              *)
(* src/utils/Config.cpp, Identity::Generate and LoadFromPEM of             *)
(* src/crypto/Identity.cpp, and the part of main that uses them.  A node   *)
(* that finds no pair of keys generates one, sets it and saves the whole   *)
(* configuration; the process may be killed between any two lines of the   *)
(* file, each of which is flushed.                                         *)
(*                                                                         *)
(* What is abstracted: a line of the file is its kind, the name in it      *)
(* (section or key) and its text; a pair of keys is a number, a key in PEM *)
(* form is a first line, one line that holds the number, and a last line.  *)
(* Names are not empty.                                                    *)
(***************************************************************************)
EXTENDS Integers, Sequences, SequencesExt

CONSTANTS
    Written,        \* the files that users have written, as sequences of lines
    MaxKeys         \* bound on the pairs of keys that are generated

VARIABLES
    file,           \* config.ini, or NoFile
    m_sections,     \* what the process has of it
    step,           \* where main is
    identity,       \* the pair of keys in use, 0 for none
    unsaved,        \* the lines that Save has still to write
    generated,      \* history: how many pairs have been generated
    kept            \* history: the pair of the last complete save, 0 for none

configVars == <<file, m_sections, step, identity, unsaved, generated, kept>>

NoText == "none"

\* Kinds: "comment", "header", "entry", "pem" (an entry with "-----BEGIN" in it),
\* "body", "end" (with "-----END" in it) and "blank".
Line(kind, name, text) == [kind |-> kind, name |-> name, text |-> text]
Comment(text) == Line("comment", NoText, text)
Header(name) == Line("header", name, NoText)
Blank == Line("blank", NoText, NoText)

NoFile == <<Line("no file", NoText, NoText)>>

\* A header has a name, and a comment is not empty.
IsNamed(line) ==
    /\ line.kind = "header" => line.name # NoText
    /\ line.kind = "comment" => line.text # NoText

\* The line in the middle of a key holds the number of a pair, 0 if it is no key.
IsLine(line) ==
    /\ line = Line(line.kind, line.name, line.text)
    /\ line.kind \in {"comment", "header", "entry", "pem", "body", "end", "blank"}
    /\ line.name \in STRING
    /\ IF line.kind = "body" THEN line.text \in Nat ELSE line.text \in STRING
    /\ IsNamed(line)

\* A sequence of lines.
IsFile(f) ==
    /\ Len(f) \in Nat /\ f = [i \in 1..Len(f) |-> f[i]]
    /\ \A i \in 1..Len(f) : IsLine(f[i])

ASSUME ConfigAssumption ==
    /\ MaxKeys \in Nat
    /\ \A f \in Written \ {NoFile} : IsFile(f)

-----------------------------------------------------------------------------
(* Load *)

\* m_sections, the one that entries go to (0 for none), the comment that waits
\* for its section or key, and the entry whose lines are being read (0 for none).
Reading == [sections |-> <<>>, current |-> 0, pending |-> NoText, pem |-> 0]

FindSection(sections, name) == SelectInSeq(sections, LAMBDA s : s.name = name)
FindEntry(section, key) == SelectInSeq(section.entries, LAMBDA e : e.key = key)

\* Set, for the section with a number: an entry that is there keeps its place.
WithEntry(sections, s, key, value, comment) ==
    LET e == FindEntry(sections[s], key)
        entry == [key |-> key, value |-> value, comment |-> comment]
    IN  [sections EXCEPT ![s].entries = IF e = 0 THEN Append(@, entry) ELSE [@ EXCEPT ![e] = entry]]

\* A section that is there is gone on with; its second comment is lost.
ReadHeader(r, name) ==
    LET s == FindSection(r.sections, name)
    IN  IF s # 0 THEN [r EXCEPT !.current = s, !.pending = NoText]
        ELSE [r EXCEPT !.sections = Append(@, [name |-> name, comment |-> r.pending, entries |-> <<>>]),
                       !.current = Len(r.sections) + 1,
                       !.pending = NoText]

\* An entry before the first section goes to one without a name.
ReadEntry(r, line) ==
    LET default == [name |-> NoText, comment |-> NoText, entries |-> <<>>]
        s == IF r.current = 0 THEN Len(r.sections) + 1 ELSE r.current
        sections == WithEntry(IF r.current = 0 THEN Append(r.sections, default) ELSE r.sections,
                              s, line.name, <<line>>, r.pending)
    IN  [r EXCEPT !.sections = sections, !.current = s, !.pending = NoText,
                  !.pem = IF line.kind = "pem" THEN FindEntry(sections[s], line.name) ELSE 0]

\* Every line up to the end of a key is its own, whatever it looks like.
ReadPemLine(r, line) ==
    [r EXCEPT !.sections[r.current].entries[r.pem].value = Append(@, line),
              !.pem = IF line.kind = "end" THEN 0 ELSE @]

\* Of several comments the last waits; what is no comment, header or entry is skipped.
ReadLine(r, line) ==
    CASE r.pem # 0 -> ReadPemLine(r, line)
      [] r.pem = 0 /\ line.kind = "comment" -> [r EXCEPT !.pending = line.text]
      [] r.pem = 0 /\ line.kind = "header" -> ReadHeader(r, line.name)
      [] r.pem = 0 /\ line.kind \in {"entry", "pem"} -> ReadEntry(r, line)
      [] OTHER -> r

\* What has been read after these lines.
ReadAll(lines) ==
    LET read[i \in 0..Len(lines)] == IF i = 0 THEN Reading ELSE ReadLine(read[i - 1], lines[i])
    IN  read[Len(lines)]

Load(lines) == IF lines = NoFile THEN <<>> ELSE ReadAll(lines).sections

-----------------------------------------------------------------------------
(* Save *)

CommentLines(comment) == IF comment = NoText THEN <<>> ELSE <<Comment(comment)>>

EntryLines(entry) == CommentLines(entry.comment) \o entry.value

SectionLines(section) ==
    CommentLines(section.comment)
      \o (IF section.name = NoText THEN <<>> ELSE <<Header(section.name)>>)
      \o FlattenSeq([e \in DOMAIN section.entries |-> EntryLines(section.entries[e])])

\* Mutant: the comments of sections are not written.
TextOfSettings(sections) ==
    FlattenSeq([s \in DOMAIN sections |->
        SectionLines([sections[s] EXCEPT !.comment = NoText])])

\* A blank line stands between two sections.
Text(sections) ==
    FlattenSeq([s \in DOMAIN sections |->
        SectionLines(sections[s]) \o (IF s < Len(sections) THEN <<Blank>> ELSE <<>>)])

-----------------------------------------------------------------------------
(* The identity *)

\* GetPublicKeyPEM and GetPrivateKeyPEM end with an end of line, which Save
\* writes and Load does not read again.
PEM(key, pair) ==
    <<Line("pem", key, "BEGIN"), Line("body", NoText, pair), Line("end", NoText, "END"), Blank>>

Get(sections, section, key) ==
    LET s == FindSection(sections, section)
        e == IF s = 0 THEN 0 ELSE FindEntry(sections[s], key)
    IN  IF e = 0 THEN <<>> ELSE sections[s].entries[e].value

Set(sections, section, key, value) ==
    LET s == FindSection(sections, section)
        all == IF s # 0 THEN sections
               ELSE Append(sections, [name |-> section, comment |-> NoText, entries |-> <<>>])
        place == IF s = 0 THEN Len(all) ELSE s
        e == FindEntry(all[place], key)
        comment == IF e = 0 THEN NoText ELSE all[place].entries[e].comment
    IN  WithEntry(all, place, key, value, comment)

\* Mutant: a key ends with an end of line, as it was written.
LoadWithEndOfLine(public, private) ==
    IF public # <<>> /\ Len(private) = 4 /\ private[2].kind = "body" THEN private[2].text ELSE 0

\* The private key says it all, and the public key must only be there.
LoadFromPEM(public, private) ==
    IF public # <<>> /\ Len(private) >= 3 /\ private[2].kind = "body" /\ private[3].kind = "end"
    THEN private[2].text ELSE 0

WithKeys(sections, pair) ==
    Set(Set(sections, "security", "public_key_pem", PEM("public_key_pem", pair)),
        "security", "private_key_pem", PEM("private_key_pem", pair))

ConfigInit ==
    /\ file \in Written
    /\ m_sections = <<>> /\ step = "down" /\ identity = 0 /\ unsaved = <<>>
    /\ generated = 0 /\ kept = 0

LoadConfig ==
    /\ step = "down"
    /\ m_sections' = Load(file)
    /\ step' = "identity"
    /\ UNCHANGED <<file, identity, unsaved, generated, kept>>

Found ==
    LoadFromPEM(Get(m_sections, "security", "public_key_pem"),
                Get(m_sections, "security", "private_key_pem"))

\* Generation may fail; the node then goes on without an identity.
LoadIdentity ==
    /\ step = "identity"
    /\ \/ /\ Found # 0
          /\ identity' = Found /\ step' = "running"
          /\ UNCHANGED <<m_sections, generated>>
       \/ /\ Found = 0 /\ generated < MaxKeys
          /\ identity' = generated + 1 /\ generated' = generated + 1
          /\ m_sections' = WithKeys(m_sections, generated + 1)
          /\ step' = "save"
       \/ /\ Found = 0
          /\ identity' = 0 /\ step' = "running"
          /\ UNCHANGED <<m_sections, generated>>
    /\ UNCHANGED <<file, unsaved, kept>>

\* The file is emptied by being opened, or cannot be opened, of which main takes no notice.
OpenFile ==
    /\ step = "save"
    /\ \/ file' = <<>> /\ unsaved' = Text(m_sections) /\ step' = "write"
       \/ UNCHANGED <<file, unsaved>> /\ step' = "running"
    /\ UNCHANGED <<m_sections, identity, generated, kept>>

WriteLine ==
    /\ step = "write"
    /\ IF unsaved = <<>>
       THEN step' = "running" /\ kept' = identity /\ UNCHANGED <<file, unsaved>>
       ELSE file' = Append(file, Head(unsaved)) /\ unsaved' = Tail(unsaved) /\ UNCHANGED <<step, kept>>
    /\ UNCHANGED <<m_sections, identity, generated>>

\* The process ends, or is killed.
End ==
    /\ step # "down"
    /\ step' = "down" /\ m_sections' = <<>> /\ identity' = 0 /\ unsaved' = <<>>
    /\ UNCHANGED <<file, generated, kept>>

ConfigNext == LoadConfig \/ LoadIdentity \/ OpenFile \/ WriteLine \/ End

ConfigSpec == ConfigInit /\ [][ConfigNext]_configVars

-----------------------------------------------------------------------------
(* Properties *)

\* Users have written the keys of the identity with their last lines, and nothing
\* else with several lines: a value without its last line takes the lines behind
\* it as its own, and with them the keys that are saved there.
PlainlyWritten ==
    \A f \in Written : \A s \in DOMAIN Load(f) : \A e \in DOMAIN Load(f)[s].entries :
        LET entry == Load(f)[s].entries[e]
        IN  entry.value[1].kind = "pem" =>
                /\ Load(f)[s].name = "security"
                /\ entry.key \in {"public_key_pem", "private_key_pem"}
                /\ \E k \in DOMAIN entry.value : entry.value[k].kind = "end"

\* Once a pair of keys has been saved to the last line, every later process uses
\* it, and neither generates nor saves another one, whatever cut saves have left in
\* the file before: parts of it, keys that end in the middle, other sections.
IdentityIsKept ==
    kept # 0 /\ step \in {"save", "write", "running"} => identity = kept

WithoutEnd(value) == IF Last(value).kind = "blank" THEN Front(value) ELSE value

LoadedEntry(entry) == [entry EXCEPT !.value = WithoutEnd(@)]

LoadedSection(section) ==
    [section EXCEPT !.entries = [e \in DOMAIN @ |-> LoadedEntry(@[e])]]

Loaded(sections) == [s \in DOMAIN sections |-> LoadedSection(sections[s])]

\* What a process has of its settings when it saves, whether it has read or set
\* them, is what the next process has: keys over several lines, entries outside of
\* sections, and those comments that the first has.
SettingsReload == step \in {"save", "running"} => Load(Text(m_sections)) = Loaded(m_sections)

\* A save that is cut off after any line leaves a file in which everything that
\* was written is read as it was, so that at most the rest is lost.
CutSaveReadsBack ==
    step = "write" =>
        LET read == Load(file)
        IN  \A s \in DOMAIN read :
                /\ read[s].name = m_sections[s].name /\ read[s].comment = m_sections[s].comment
                /\ \A e \in DOMAIN read[s].entries :
                      /\ read[s].entries[e].key = m_sections[s].entries[e].key
                      /\ IsPrefix(WithoutEnd(read[s].entries[e].value), m_sections[s].entries[e].value)

\* A file that is saved, wholly or in part, is what later processes read.
SettingsSurvive == SettingsReload /\ CutSaveReadsBack

-----------------------------------------------------------------------------
(* What a comment says, and the code does not do *)

CommentsOf(lines) == {lines[i].text : i \in {j \in DOMAIN lines : lines[j].kind = "comment"}}

\* "Save to file (preserves comments and multiline)" (Config.hpp:32): what is about
\* to be written in place of a file has the comments of the file.
CommentsArePreserved ==
    step = "save" => CommentsOf(file) \subseteq CommentsOf(Text(m_sections))
=============================================================================
