-------------------------- MODULE IncrementalBuild --------------------------
(***************************************************************************)
(* Incremental compilation: the dependency graph driven by the scheduler,  *)
(* and the workers' compiler (worker/src/compiler.rs).                     *)
(* A round takes nodes_needing_recompile once (schedule_jobs calls         *)
(* parallel_groups before it creates a job); workers compile its nodes,    *)
(* dependencies first, and a node is marked compiled when its compilation  *)
(* has succeeded.  Users edit in between.  Nothing in src/ calls           *)
(* mark_compiled outside tests: this is the use its comment describes.     *)
(* The output directory outlives compilations and workers: pdfs are the    *)
(* documents it has a PDF for, from this graph's life or an earlier one.   *)
(* Documents have names of their own there.                                *)
(* read, built and the history variables are not in the code, they record  *)
(* what outputs are made of, what went wrong and when edits fell.          *)
(***************************************************************************)
EXTENDS DependencyGraph

CONSTANTS Edges,        \* the edges of the project, which stay as they are
          Formats,      \* the nodes that others use by their output: preambles, by their .fmt
          Faulty,       \* the contents in which lint_source finds an error
          MaxEdits      \* bound of the model: edits in a behaviour

ASSUME IncrementalBuildAssumption ==
  /\ Edges \subseteq Nodes \X Nodes /\ IsFiniteSet(Edges)
  /\ Formats \subseteq Nodes
  /\ Faulty \subseteq Contents
  /\ MaxEdits \in Nat

VARIABLES round,      \* the nodes of the round that no worker has taken yet
          compiling,  \* the nodes that a worker compiles
          read,       \* read[n][m]: the content of m that the compilation of n has read
          pdfs,       \* the documents that the output directory has a PDF for
          built,      \* built[n][m]: the content of m that the output n last reported was made of
          faltered,   \* the nodes whose last compilation reported no output of its own
          raced,      \* the nodes whose last output is not of the content they were marked with
          disturbed,  \* the nodes that were edited during a round
          edits       \* how many edits there have been

outputs   == <<pdfs, built>>
history   == <<faltered, raced, disturbed, edits>>
buildVars == <<vars, round, compiling, read, outputs, history>>

(* A node and everything it depends on. *)
Footprint(n) == {n} \cup DependsOn[n]

Nothing == [m \in Nodes |-> NoHash]

(* What a compilation of n finds: the output of a preamble, otherwise the   *)
(* source itself.                                                           *)
FoundBy(n) ==
  [m \in Nodes |-> IF m \notin Footprint(n) THEN NoHash
                   ELSE IF m \in Formats \ {n} THEN built[m][m]
                   ELSE content_hash[m]]

BetweenRounds == round = {} /\ compiling = {}

BuildInit ==
  /\ nodes = Nodes
  /\ edges = Edges
  /\ content_hash \in [Nodes -> Contents]
  /\ last_compiled_hash = [n \in Nodes |-> NoHash]
  /\ round = {}
  /\ compiling = {}
  /\ read = [n \in Nodes |-> Nothing]
  /\ pdfs \in SUBSET (Nodes \ Formats)
  /\ built = [n \in Nodes |-> Nothing]
  /\ faltered = {}
  /\ raced = {}
  /\ disturbed = {}
  /\ edits = 0

(* schedule_jobs *)
StartRound ==
  /\ BetweenRounds
  /\ NodesNeedingRecompile # {}
  /\ round' = NodesNeedingRecompile
  /\ UNCHANGED <<vars, compiling, read, outputs, history>>

(* A slip: a node does not wait for the ones that are being compiled. *)
StartCompileAtOnce(n) ==
  /\ n \in round
  /\ round' = round \ {n}
  /\ compiling' = compiling \cup {n}
  /\ read' = [read EXCEPT ![n] = FoundBy(n)]
  /\ UNCHANGED <<vars, outputs, history>>

(* A worker takes a job whose dependencies in the round have results, and   *)
(* reads the sources.                                                       *)
StartCompile(n) ==
  /\ n \in round
  /\ Dependencies(edges, n) \cap (round \cup compiling) = {}
  /\ round' = round \ {n}
  /\ compiling' = compiling \cup {n}
  /\ read' = [read EXCEPT ![n] = FoundBy(n)]
  /\ UNCHANGED <<vars, outputs, history>>

EndCompile(n) ==
  /\ n \in compiling
  /\ compiling' = compiling \ {n}
  /\ read' = [read EXCEPT ![n] = Nothing]
  /\ UNCHANGED <<round, disturbed, edits>>

(* generate_format writes a format whatever the preamble holds; run_tectonic *)
(* writes a PDF unless lint_source finds an error.                          *)
WritesFormat(n) == n \in Formats
WritesPdf(n)    == n \notin Formats /\ read[n][n] \notin Faulty
WritesOutput(n) == WritesFormat(n) \/ WritesPdf(n)

(* The compilation of n is reported as a success. *)
Succeeds(n) ==
  /\ EndCompile(n)
  /\ MarkCompiled(n)
  /\ pdfs' = IF WritesPdf(n) THEN pdfs \cup {n} ELSE pdfs
  /\ built' = IF WritesOutput(n) THEN [built EXCEPT ![n] = read[n]] ELSE built
  /\ faltered' = IF WritesOutput(n) THEN faltered \ {n} ELSE faltered \cup {n}
  /\ raced' = IF read[n][n] = content_hash[n] THEN raced \ {n} ELSE raced \cup {n}

(* A slip of compile: that the compiler ran is a success. *)
CompileSucceedsAnyway(n) == Succeeds(n)

(* compile reports success when there is a PDF, whoever wrote it.           *)
CompileSucceeds(n) ==
  /\ WritesOutput(n) \/ n \in pdfs
  /\ Succeeds(n)

(* It reports failure, or ends with an error of its own: a missing input,   *)
(* files that cannot be read or written - the PDF may be written by then.   *)
CompileFails(n) ==
  /\ EndCompile(n)
  /\ pdfs' \in {pdfs, IF WritesPdf(n) THEN pdfs \cup {n} ELSE pdfs}
  /\ faltered' = faltered \cup {n}
  /\ UNCHANGED <<vars, built, raced>>

UserEdits(n, c) ==
  /\ edits < MaxEdits
  /\ edits' = edits + 1
  /\ Edit(n, c)
  /\ disturbed' = IF BetweenRounds THEN disturbed ELSE disturbed \cup {n}
  /\ UNCHANGED <<round, compiling, read, outputs, faltered, raced>>

BuildNext ==
  \/ StartRound
  \/ \E n \in Nodes : \/ StartCompile(n) \/ CompileSucceeds(n) \/ CompileFails(n)
                      \/ \E c \in Contents : UserEdits(n, c)

BuildSpec == BuildInit /\ [][BuildNext]_buildVars

-----------------------------------------------------------------------------
(* Properties *)

UpToDate == nodes \ NodesNeedingRecompile

(* What the graph calls up to date has an output: a node that does not need *)
(* recompilation, and every node below it, last reported an output made of  *)
(* its own current content, whatever had errors or failed and whenever      *)
(* users edited.  There are two exceptions.  compile takes any PDF of that  *)
(* name for its own, so a document whose content has errors may have only   *)
(* an earlier PDF; a document without errors never has.  And a node edited  *)
(* while it compiled is taken by mark_compiled to be compiled as it is by   *)
(* then.                                                                    *)
UpToDateNodesAreCompiled ==
  \A n \in UpToDate : \A m \in Footprint(n) \ raced :
    \/ built[m][m] = content_hash[m]
    \/ content_hash[m] \in Faulty /\ m \in pdfs

(* dependency_graph.rs: "This includes nodes with changed content AND their *)
(* dependents": a node that does not need recompilation, and that no worker *)
(* has still to compile, has an output made of the current content of       *)
(* everything it depends on, through the preamble's output too.  What a     *)
(* failure and an edit can spoil is confined: a node that faltered has an   *)
(* output of its own that is older than its dependencies' marks, and is not *)
(* found again; the source of such a node, and of a node edited during a    *)
(* round, may have been read by others in a state that was then undone.     *)
(* Nothing else is ever stale, in this round or a later one.                *)
UpToDateNodesAreCurrent ==
  \A n \in UpToDate \ (round \cup compiling \cup faltered) :
    \A m \in Footprint(n) \ (disturbed \cup (faltered \ Formats)) :
      built[n][m] = content_hash[m]
=============================================================================
