------------------------------ MODULE Workspaces ------------------------------
(***************************************************************************)
(* The layer stores over a revision store (stores/revision.py) and the     *)
(* calls around them that no round makes: init, transfer and show of the   *)
(* command line (cli.py, transfer.py), next to evolve() and its saves.     *)
(*                                                                         *)
(* An operation is up to four calls of the revision store with nothing     *)
(* held between them; one call is one step, which is what the store in     *)
(* memory does and what RevisionChain promises of the others.              *)
(***************************************************************************)
EXTENDS StoreConstants

\* The chains: the graphs of two workspaces, and what a round saves beside one of them.
\* Checkpoints and traces are saved alike.
Graphs == {"source", "target"}
Chains == Graphs \cup {"saves"}

VARIABLES
    chains,   \* the revisions of each chain, oldest first, and who appended them
    client    \* the operation of each caller

vars == <<chains, client>>

HeadOf(chain) == IF chain = <<>> THEN None ELSE chain[Len(chain)].digest

\* Bound: revisions of all chains.
Room == Len(chains["source"]) + Len(chains["target"]) + Len(chains["saves"]) < MaxLen

-----------------------------------------------------------------------------
(* An operation: the call it makes next, and what the calls before found.  *)

Idle == [pc |-> "idle", answer |-> None, on |-> None, expected |-> None, document |-> None,
         origin |-> None, ref |-> None, base |-> 0]

\* A caller may begin, with the head of a chain.
Begins(c, pc, on) ==
    /\ client[c].pc = "idle"
    /\ Room
    /\ client' = [client EXCEPT ![c] =
          [Idle EXCEPT !.pc = pc, !.on = on, !.expected = HeadOf(chains[on]), !.base = Len(chains[on])]]

\* ... which is going to get a revision.
BeginsAppend(c, pc, on, document, origin, ref) ==
    /\ client[c].pc = "idle"
    /\ Room
    /\ client' = [client EXCEPT ![c] =
          [pc |-> pc, answer |-> None, on |-> on, expected |-> HeadOf(chains[on]),
           document |-> document, origin |-> origin, ref |-> ref, base |-> Len(chains[on])]]

Goes(c, pc) == client' = [client EXCEPT ![c].pc = pc]

Answer(c, answer) == client' = [client EXCEPT ![c] = [Idle EXCEPT !.answer = answer]]

\* A refused append is kept with what its operation saw first, which the properties speak of.
Refused(c) ==
    client' = [client EXCEPT ![c] = [Idle EXCEPT !.answer = "head_moved", !.on = client[c].on,
                                                 !.base = client[c].base]]

\* A caller that has its answer with its first call.
Refuses(c) == client[c].pc = "idle" /\ Answer(c, "refused")

-----------------------------------------------------------------------------
(* append() of the store.                                                  *)

\* The head is not compared.
Matches_Always(c) == client[c].pc = "append"

\* The head is the one the caller expects.
Matches(c) == client[c].pc = "append" /\ client[c].expected = HeadOf(chains[client[c].on])

Land(c) ==
    /\ Matches(c)
    /\ chains' = [chains EXCEPT ![client[c].on] = Append(@,
          [digest |-> client[c].document, parent |-> HeadOf(@), origin |-> client[c].origin,
           ref |-> client[c].ref, by |-> c])]
    /\ Goes(c, "landed")

HeadMoved(c) ==
    /\ client[c].pc = "append"
    /\ ~ Matches(c)
    /\ Refused(c)
    /\ UNCHANGED chains

Return(c) ==
    /\ client[c].pc \in {"landed", "shown"}
    /\ Answer(c, "done")
    /\ UNCHANGED chains

\* The caller's process stops between two calls.
Stop(c) ==
    /\ client[c].pc # "idle"
    /\ Answer(c, None)
    /\ UNCHANGED chains

-----------------------------------------------------------------------------
(* The first graph of a workspace.                                         *)

\* seed() on whatever head there is.
Seed_OnAnyHead(c) ==
    /\ client[c].pc = "seed"
    /\ client' = [client EXCEPT ![c].pc = "append", ![c].expected = HeadOf(chains[client[c].on])]
    /\ UNCHANGED chains

\* seed(): only an empty chain is seeded, and the append expects it to be empty still.
Seed(c) ==
    /\ client[c].pc = "seed"
    /\ IF chains[client[c].on] = <<>> THEN Goes(c, "append") ELSE Refused(c)
    /\ UNCHANGED chains

\* cmd_init: a workspace with a graph is refused; else the graph is read, asked of a model or
\* the skeleton, before the seed.
InitLoads(c, on, document) ==
    /\ \/ chains[on] # <<>> /\ Refuses(c)
       \/ chains[on] = <<>> /\ BeginsAppend(c, "seed", on, document, "init", None)
    /\ UNCHANGED chains

\* seed_workspace(): the head of the source, which may be none.
TransferLoads(c) ==
    LET head == HeadOf(chains["source"])
    IN  /\ \/ head = None /\ Refuses(c)
           \/ head # None /\ BeginsAppend(c, "target", "target", head, "transfer", head)
        /\ UNCHANGED chains

\* seed_workspace(): the target must have none.
TransferChecks(c) ==
    /\ client[c].pc = "target"
    /\ IF chains["target"] = <<>> THEN Goes(c, "seed") ELSE Answer(c, "refused")
    /\ UNCHANGED chains

-----------------------------------------------------------------------------
(* evolve() on the same chains.                                            *)

\* load() and the candidate of a round, whose edits are made for the head; an empty workspace
\* is seeded.
EvolveLoads(c, on, document) ==
    /\ \/ /\ chains[on] = <<>>
          /\ BeginsAppend(c, "seed", on, document, "skeleton", None)
       \/ /\ chains[on] # <<>>
          /\ BeginsAppend(c, "append", on, document, "accepted", HeadOf(chains[on]))
    /\ UNCHANGED chains

\* The store remembers the revision it saved last, and appends to that.
SaveLoads_Remembered(c, document) ==
    LET chain == chains["saves"]
        own == {i \in 1 .. Len(chain) : chain[i].by = c}
    IN  /\ client[c].pc = "idle"
        /\ Room
        /\ client' = [client EXCEPT ![c] =
              [pc |-> "append", answer |-> None, on |-> "saves",
               expected |-> IF own = {} THEN HeadOf(chain)
                            ELSE chain[CHOOSE i \in own : \A j \in own : j <= i].digest,
               document |-> document, origin |-> "saved", ref |-> None, base |-> Len(chain)]]
        /\ UNCHANGED chains

\* save() of checkpoints, put() of traces: the head, and an append on it.
SaveLoads(c, document) ==
    /\ BeginsAppend(c, "append", "saves", document, "saved", None)
    /\ UNCHANGED chains

-----------------------------------------------------------------------------
(* cmd_show reads the head of the graph twice.                             *)

\* _heads(): the graph that is listed.
ShowLoads(c, on) ==
    /\ Begins(c, "show", on)
    /\ UNCHANGED chains

\* The score is of the first read, the graph of the second.
ShowHead_GraphLast(c) ==
    /\ client[c].pc = "show"
    /\ client' = [client EXCEPT ![c] =
          [client[c] EXCEPT !.pc = "shown", !.ref = client[c].expected,
                            !.expected = HeadOf(chains[client[c].on])]]
    /\ UNCHANGED chains

\* The head again, for its origin and its validation score.
ShowHead(c) ==
    /\ client[c].pc = "show"
    /\ client' = [client EXCEPT ![c].pc = "shown", ![c].ref = HeadOf(chains[client[c].on])]
    /\ UNCHANGED chains

-----------------------------------------------------------------------------
Init ==
    /\ chains = [on \in Chains |-> <<>>]
    /\ client = [c \in Writers |-> Idle]

Next ==
    \E c \in Writers :
        \/ \E on \in Graphs :
              \/ \E document \in Documents :
                    InitLoads(c, on, document) \/ EvolveLoads(c, on, document)
              \/ ShowLoads(c, on)
        \/ \E document \in Documents : SaveLoads(c, document)
        \/ TransferLoads(c) \/ TransferChecks(c) \/ Seed(c)
        \/ ShowHead(c)
        \/ Land(c) \/ HeadMoved(c) \/ Return(c) \/ Stop(c)

Spec == Init /\ [][Next]_vars

-----------------------------------------------------------------------------
(* Properties.                                                             *)

\* Where the first graph of a workspace is from.
Origins == {"init", "skeleton", "transfer"}

\* Revisions and operations keep their types, and every revision names the one below it.
TypeOK ==
    /\ \A on \in Chains : \A i \in 1 .. Len(chains[on]) :
          /\ chains[on][i] \in [digest : Documents, parent : Documents \cup {None},
                                origin : Origins \cup {"accepted", "saved"},
                                ref : Documents \cup {None}, by : Writers]
          /\ chains[on][i].parent = IF i = 1 THEN None ELSE chains[on][i - 1].digest
    /\ client \in [Writers ->
          [pc : {"idle", "target", "seed", "append", "landed", "show", "shown"},
           answer : {None, "refused", "head_moved", "done"},
           on : Chains \cup {None}, expected : Documents \cup {None},
           document : Documents \cup {None}, origin : Origins \cup {"accepted", "saved", None},
           ref : Documents \cup {None}, base : Nat]]

\* Of all that race to give a workspace its first graph, by init, by transfer or by
\* evolve(), one does, and nothing it saw as empty had a graph; a transfer copies a graph the
\* source had as its head (revision.py:36-42, transfer.py:16-23, cli.py:94-134).
SeedIsFirst ==
    \A on \in Graphs : \A i \in 1 .. Len(chains[on]) :
        /\ chains[on][i].origin \in Origins <=> i = 1
        /\ chains[on][i].origin = "transfer" =>
              /\ on = "target"
              /\ \E j \in 1 .. Len(chains["source"]) :
                    chains["source"][j].digest = chains[on][i].digest
              /\ chains[on][i].ref = chains[on][i].digest

\* An accepted graph lies on the graph its edits were made for, whoever else accepted, seeded
\* or transferred meanwhile (revision.py:44-62).
EditsFitBase ==
    \A on \in Graphs : \A i \in 1 .. Len(chains[on]) :
        chains[on][i].origin = "accepted" => chains[on][i].ref = chains[on][i].parent

\* HeadMoved is told only to a caller whom another overtook between its first call and its
\* append: nobody is refused for what he saved himself, and of those who race one gets
\* through (revision.py:84-89, 118-122, memory.py:28-37).
RefusedHasRival ==
    \A c \in Writers :
        client[c].answer = "head_moved" =>
            \E i \in client[c].base + 1 .. Len(chains[client[c].on]) :
                chains[client[c].on][i].by # c

\* The score show prints is that of the graph it lists, or of one accepted while it ran, and
\* never of an earlier one (cli.py:88-91, 166-171).
ShownScoreNotOlder ==
    \A c \in Writers :
        client[c].pc = "shown" =>
            LET chain == chains[client[c].on]
                base == client[c].base
            IN  /\ client[c].expected = HeadOf(SubSeq(chain, 1, base))
                /\ \E j \in base .. Len(chain) : client[c].ref = HeadOf(SubSeq(chain, 1, j))

=============================================================================
