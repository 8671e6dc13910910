------------------------------- MODULE MCAgent -------------------------------
(* The agent of a node, for TLC: the process and its threads, its          *)
(* configuration, its texts, its statements, and the context it asks the   *)
(* language model with.  No two of them share a variable of the model, so  *)
(* that they are explored one at a time.                                   *)
EXTENDS StatementMemory, AgentMemory, ContextBuilder, NodeLife, ConfigFile

SafeName(n) == "f1"

\* Comments, sections that come twice, entries before the first section, a key
\* that comes twice, a file with a public key and no private one.
UserFiles ==
    {NoFile, <<>>,
     <<Line("entry", "k", "1"), Comment("a"), Comment("b"), Header("network"), Comment("c"),
       Line("entry", "seed_nodes", "s"), Blank, Line("entry", "seed_nodes", "t"),
       Header("inference"), Comment("d"), Header("network"), Comment("e"),
       Line("entry", "bootstrap_port", "9090"), Comment("f")>>,
     <<Comment("a"), Header("security"), Line("entry", "enable_signing", "true"), Comment("b")>>
       \o PEM("public_key_pem", 0) \o <<Header("network"), Line("entry", "seed_nodes", "s")>>}

\* What the theorems about the configuration suppose of the files of users.
ASSUME UsersWritePlainly == PlainlyWritten

\* They have to: when a save has been cut within another key, the pair that the
\* next process saves is read as lines of that key, and is not found.
ASSUME CutKeyTakesPair ==
    LET cut == <<Header("network"), Line("pem", "certificate", "BEGIN")>>
        read == Load(Text(WithKeys(Load(cut), 1)))
    IN  LoadFromPEM(Get(read, "security", "public_key_pem"),
                    Get(read, "security", "private_key_pem")) = 0

MCInit == Init /\ MemoryInit /\ ContextInit /\ NodeInit /\ ConfigInit

\* The node and the configuration have several initial states.
OneNode == NodeInit /\ ~seeds
OneFile == ConfigInit /\ file = NoFile

MCNext ==
    \/ /\ MemoryInit /\ ContextInit /\ OneNode /\ OneFile /\ Next
       /\ UNCHANGED <<memoryVars, contextVars, nodeVars, configVars>>
    \/ /\ Init /\ ContextInit /\ OneNode /\ OneFile /\ MemoryNext
       /\ UNCHANGED <<vars, contextVars, nodeVars, configVars>>
    \/ /\ Init /\ MemoryInit /\ OneNode /\ OneFile /\ ContextNext
       /\ UNCHANGED <<vars, memoryVars, nodeVars, configVars>>
    \/ /\ Init /\ MemoryInit /\ ContextInit /\ OneFile /\ NodeNext
       /\ UNCHANGED <<vars, memoryVars, contextVars, configVars>>
    \/ /\ Init /\ MemoryInit /\ ContextInit /\ OneNode /\ ConfigNext
       /\ UNCHANGED <<vars, memoryVars, contextVars, nodeVars>>

allVars == <<vars, memoryVars, contextVars, nodeVars, configVars>>

MCSpec == MCInit /\ [][MCNext]_allVars /\ NodeFairness
==============================================================================
