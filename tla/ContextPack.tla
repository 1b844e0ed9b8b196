----------------------------- MODULE ContextPack -----------------------------
(***************************************************************************)
(* Context packs: retrieve and assemble_context of                         *)
(* src/src/city2core/memory.py, over the records of MemoryLifecycle.       *)
(*                                                                         *)
(* assemble_context reads the newest run of its task, sweeps, retrieves,   *)
(* and records a pack in a transaction of its own.  Commands of other      *)
(* processes on memories, new runs and the clock may come between these    *)
(* steps, and the process may die at any of them.  One process assembles;  *)
(* the other loops of MemoryLifecycle go on beside it.                     *)
(*                                                                         *)
(* A request asks for the memories of some scopes that its clearance and   *)
(* its words admit: one set.  How they rank is left open; the ranking is   *)
(* a total order.  The retry of a recorded pack under its key is answered  *)
(* with that pack, which is EventStore's matter and left out here.         *)
(***************************************************************************)
EXTENDS MemoryLifecycle, SequencesExt

CONSTANTS
    Sections,   \* SECTION_ORDER
    Section,    \* the section of each memory
    Tokens,     \* token_count of its statement
    Cut,        \* Cut[m][n]: that of the excerpt of it that n tokens hold
    Budgets,    \* the section_budgets callers give: any of the sections
    Granted,    \* the memories in the scopes of each run's envelope
    Assembler,  \* the process that assembles
    MaxPacks    \* bound: the number of packs

\* Cut at n tokens, a statement is as long, or its last token was blank and
\* rstrip leaves what one token less would hold.  A call whose budgets name
\* other sections, or are negative, raises and ends as in AssembleEnds.
ASSUME ContextAssumption ==
    /\ Section \in [Memories -> Sections]
    /\ Tokens \in [Memories -> Nat \ {0}]
    /\ \A b \in Budgets : DOMAIN b \subseteq Sections /\ b \in [DOMAIN b -> Nat]
    /\ \A m \in Memories :
          \A n \in 1 .. Tokens[m] - 1 :
             Cut[m][n] \in {n, IF n = 1 THEN 0 ELSE Cut[m][n - 1]}
    /\ Granted \in Seq(SUBSET Memories)
    /\ Assembler \in Processes
    /\ MaxPacks \in Nat

VARIABLES
    now,        \* the clock
    newest,     \* the task's latest run, or 0
    assembly,   \* the call under way: its phase, run, budget, what it asked
                \* for and what it read, and when; or NULL
    packs       \* context_packs: manifests, with the run and budgets of their
                \* call; at is when the records were read, of which a manifest
                \* keeps nothing

contextVars == <<now, newest, assembly, packs>>

-----------------------------------------------------------------------------

ContextInit ==
    /\ Init
    /\ now = 0
    /\ newest = 0
    /\ assembly = NULL
    /\ packs = {}

-----------------------------------------------------------------------------
(* Selection within the budgets.                                           *)

\* What each section may hold: none if the caller does not name it.
Allowance(budgets) ==
    [s \in Sections |-> IF s \in DOMAIN budgets THEN budgets[s] ELSE 0]

\* excluded are the memories with reason section_budget; those the retrieval
\* leaves out have other reasons.
NothingTaken ==
    [selected |-> <<>>, excluded |-> {}, used |-> [s \in Sections |-> 0],
     truncated |-> [s \in Sections |-> FALSE]]

\* What of a statement of m fits into n tokens, n > 0.
Fits(m, n) == IF Tokens[m] <= n THEN Tokens[m] ELSE Cut[m][n]

Takes_Overrun(taken, reading, budget) ==
    LET m == reading.memory
        s == Section[m]
    IN  IF taken.used[s] >= budget[s]
        THEN [taken EXCEPT !.truncated[s] = TRUE, !.excluded = @ \cup {m}]
        ELSE [selected  |-> Append(taken.selected,
                              [memory |-> m, version |-> reading.version,
                               tokens |-> Fits(m, budget[s])]),
              excluded  |-> taken.excluded,
              used      |-> [taken.used EXCEPT ![s] = @ + Fits(m, budget[s])],
              truncated |-> [taken.truncated EXCEPT ![s] = @ \/ Tokens[m] > budget[s]]]

Takes_LastOnly(taken, reading, budget) ==
    LET m == reading.memory
        s == Section[m]
        remaining == budget[s] - taken.used[s]
        count == IF remaining <= 0 THEN 0 ELSE Fits(m, remaining)
    IN  [selected  |-> IF count = 0 THEN taken.selected
                       ELSE Append(taken.selected,
                              [memory |-> m, version |-> reading.version,
                               tokens |-> count]),
         excluded  |-> IF count = 0 THEN taken.excluded \cup {m} ELSE taken.excluded,
         used      |-> [taken.used EXCEPT ![s] = @ + count],
         truncated |-> [taken.truncated EXCEPT ![s] = Tokens[m] > remaining]]

\* One round of the loop: whole, cut to what remains, or left out.
Takes(taken, reading, budget) ==
    LET m == reading.memory
        s == Section[m]
        remaining == budget[s] - taken.used[s]
        count == IF remaining <= 0 THEN 0 ELSE Fits(m, remaining)
    IN  [selected  |-> IF count = 0 THEN taken.selected
                       ELSE Append(taken.selected,
                              [memory |-> m, version |-> reading.version,
                               tokens |-> count]),
         excluded  |-> IF count = 0 THEN taken.excluded \cup {m} ELSE taken.excluded,
         used      |-> [taken.used EXCEPT ![s] = @ + count],
         truncated |-> [taken.truncated EXCEPT ![s] = @ \/ Tokens[m] > remaining]]

\* What is taken after each round.
Rounds(ranked, budget) ==
    LET taken[i \in 0 .. Len(ranked)] ==
            IF i = 0 THEN NothingTaken
            ELSE Takes(taken[i - 1], ranked[i], budget)
    IN  taken

Selection(ranked, budget) == Rounds(ranked, budget)[Len(ranked)]

-----------------------------------------------------------------------------
(* Retrieval.                                                              *)

Retrievable_Swept(asked) == {m \in asked \cap Accepted : index[m] # NULL}

\* The filters of retrieve, by the clock as it is then.  A search with words
\* is made in the index, one without in the records.  The two tables are read
\* one after the other; a record that changes in between drops out.
Retrievable(asked) ==
    {m \in asked \cap Accepted : index[m] # NULL /\ memory[m].due > now}

Reading(m) == [memory |-> m, version |-> memory[m].version]

-----------------------------------------------------------------------------
(* Actions.                                                                *)

\* The scopes asked for are among those of the envelope.  The sweep is the
\* loop of MemoryLifecycle.
AssembleStart(asked, budget) ==
    /\ assembly = NULL
    /\ work[Assembler] = NULL
    /\ newest # 0
    /\ Cardinality(packs) < MaxPacks
    /\ asked \subseteq Granted[newest]
    /\ assembly' = [phase |-> "sweep", run |-> newest, asked |-> asked,
                    budget |-> budget, ranked |-> <<>>, at |-> now]
    /\ IF Overdue(now) = {} THEN UNCHANGED vars ELSE SweepStale(Assembler, now)
    /\ UNCHANGED <<now, newest, packs>>

Retrieve ==
    /\ assembly # NULL
    /\ assembly.phase = "sweep"
    /\ work[Assembler] = NULL
    /\ \E order \in SetToSeqs(Retrievable(assembly.asked)) :
          assembly' = [assembly EXCEPT !.phase = "record", !.at = now,
                         !.ranked = [i \in DOMAIN order |-> Reading(order[i])]]
    /\ UNCHANGED <<vars, now, newest, packs>>

RunOf_Newest == newest

\* The run whose envelope the scopes were compared with.
RunOf == assembly.run

\* memory_projection_sha256: what the digest of the records fixes, of what
\* the properties tell apart.  The event high water beside it counts at least
\* the versions.
Projection ==
    [m \in Memories |-> [state |-> memory[m].state, version |-> memory[m].version,
                         due |-> memory[m].due]]

\* The transaction reads the records again for the snapshot, and nothing else
\* of them: what is selected is as retrieve read it.
RecordPack ==
    /\ assembly # NULL
    /\ assembly.phase = "record"
    /\ LET taken == Selection(assembly.ranked, Allowance(assembly.budget))
           named == DOMAIN assembly.budget
       IN  packs' = packs \cup
             {[run |-> RunOf, budget |-> assembly.budget,
               ranked |-> assembly.ranked, at |-> assembly.at,
               selected |-> taken.selected, excluded |-> taken.excluded,
               used |-> Restrict(taken.used, named),
               truncated |-> Restrict(taken.truncated, named),
               snapshot |-> Projection]}
    /\ assembly' = NULL
    /\ UNCHANGED <<vars, now, newest>>

\* The process dies, or its sweep raises because another has changed a record.
AssembleEnds ==
    /\ assembly # NULL
    /\ assembly' = NULL
    /\ IF work[Assembler] = NULL THEN UNCHANGED vars ELSE Fails(Assembler)
    /\ UNCHANGED <<now, newest, packs>>

\* lease_task
NewRun ==
    /\ newest < Len(Granted)
    /\ newest' = newest + 1
    /\ UNCHANGED <<vars, now, assembly, packs>>

Tick ==
    /\ now < MaxTime
    /\ now' = now + 1
    /\ UNCHANGED <<vars, newest, assembly, packs>>

\* The next transaction of any loop, a command, and what other processes
\* begin and do not end.
Others ==
    /\ \/ Command
       \/ \E p \in Processes :
             \/ Continue(p)
             \/ (p = Assembler => assembly = NULL) /\ (Begin(p) \/ Fails(p))
    /\ UNCHANGED contextVars

ContextNext ==
    \/ Others
    \/ \E asked \in SUBSET Memories, budget \in Budgets : AssembleStart(asked, budget)
    \/ Retrieve
    \/ RecordPack
    \/ AssembleEnds
    \/ NewRun
    \/ Tick

ContextSpec == ContextInit /\ [][ContextNext]_<<vars, contextVars>>

-----------------------------------------------------------------------------
(* Properties.                                                             *)

\* The memories that a sequence of readings names, of section s.
Named(seq, s) == {seq[i].memory : i \in DOMAIN seq} \cap {m \in Memories : Section[m] = s}

\* The sums of the first numbers of a sequence, and that of all.
Sums(counts) ==
    LET sum[i \in 0 .. Len(counts)] ==
            IF i = 0 THEN 0 ELSE sum[i - 1] + counts[i]
    IN  sum

Total(counts) == Sums(counts)[Len(counts)]

CountsIn(selected, s) ==
    [i \in DOMAIN selected |->
        IF Section[selected[i].memory] = s THEN selected[i].tokens ELSE 0]

LengthsIn(ranked, s) ==
    [i \in DOMAIN ranked |->
        IF Section[ranked[i].memory] = s THEN Tokens[ranked[i].memory] ELSE 0]

TokensOf(p, s) == Total(CountsIn(p.selected, s))

Demand(p, s) == Total(LengthsIn(p.ranked, s))

\* The excerpts of a section hold no more tokens than its budget, and as many
\* as the manifest says, however often an excerpt came out shorter than the
\* room there was; a section without a budget has none.
PacksWithinBudget ==
    \A p \in packs : \A s \in Sections :
        /\ TokensOf(p, s) <= Allowance(p.budget)[s]
        /\ s \in DOMAIN p.budget => TokensOf(p, s) = p.used[s]

\* Nothing that was retrieved is left out unsaid.  A section with a budget is
\* marked truncated exactly when the statements retrieved for it are together
\* longer than the budget; one that is not has them all, whole.  Of a section
\* without a budget no entry speaks: all its memories are left out, and only
\* the list of excluded memories has them.
TruncationIsSaid ==
    \A p \in packs :
        /\ \A s \in DOMAIN p.budget :
              /\ p.truncated[s] <=> Demand(p, s) > p.budget[s]
              /\ ~p.truncated[s] => /\ Named(p.selected, s) = Named(p.ranked, s)
                                    /\ TokensOf(p, s) = Demand(p, s)
        /\ \A s \in Sections \ DOMAIN p.budget :
              /\ Named(p.selected, s) = {}
              /\ Named(p.ranked, s) \subseteq p.excluded
        /\ \A s \in Sections :
              Named(p.ranked, s) \subseteq Named(p.selected, s) \cup p.excluded

\* What a pack holds of a memory is of a version that was accepted and not due
\* when it was read, after the sweep.  By the time the pack is recorded the
\* memory may have gone stale or been replaced; then the pack's snapshot shows
\* a later version, and never a memory that was not accepted.
SelectedWereCurrent ==
    \A p \in packs : \A i \in DOMAIN p.selected :
        LET item == p.selected[i]
            row  == p.snapshot[item.memory]
        IN  \/ /\ row.version = item.version
               /\ row.state = "accepted"
               /\ row.due > p.at
            \/ row.version > item.version /\ row.state \in WasAccepted

\* A pack holds only memories its run's envelope grants, though the task may
\* get a new run with another envelope while the pack is made.
PacksWithinGrant ==
    \A p \in packs : \A i \in DOMAIN p.selected :
        p.selected[i].memory \in Granted[p.run]

=============================================================================
