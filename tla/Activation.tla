----------------------------- MODULE Activation -----------------------------
(***************************************************************************)
(* App.Activate of the service container (internal/container/container.go) *)
(* activates a list of entries in passes, each one as soon as the services *)
(* it wants are there.  An activation that fails is given up by its caller *)
(* with everything it has provided (app.go:96).                            *)
(***************************************************************************)
EXTENDS SequencesExt

CONSTANTS
  Modules,  (* the registry: name -> [provides, inject], sets of services        *)
  Given     (* what the host provides before                                     *)

VARIABLES
  stage,      (* "compose", "scan", "up", "unmet" or "failed"                    *)
  jobs,       (* history: the entries to activate, in their order                *)
  todo,       (* the ones of this pass still to be tried                         *)
  stalled,    (* the ones that wait                                              *)
  progress,   (* this pass has activated one                                     *)
  provided,   (* App.provided                                                    *)
  activated   (* App.activated                                                   *)

activationVars == <<stage, jobs, todo, stalled, progress, provided, activated>>

\* A job has an entry's id and the name of its module.
Decl(j) == Modules[j.name]

-----------------------------------------------------------------------------
ActivationInit ==
  /\ stage = "compose"
  /\ jobs = <<>> /\ todo = <<>> /\ stalled = <<>> /\ progress = FALSE
  /\ provided = Given /\ activated = <<>>

\* The entries are there, flattened to jobs.
Queue(js) ==
  /\ stage = "compose"
  /\ stage' = "scan"
  /\ jobs' = js /\ todo' = js
  /\ UNCHANGED <<stalled, progress, provided, activated>>

\* tryActivate of the next job: its services are there, its config can be read
\* and its factory succeeds, and it provides nothing somebody provides already,
\* unless under its own id.
Succeeds ==
  /\ stage = "scan" /\ todo # <<>>
  /\ LET j == Head(todo) IN
       /\ j.name \in DOMAIN Modules
       /\ Decl(j).inject \subseteq provided
       /\ Decl(j).provides \cap provided \subseteq {j.id}
       /\ activated' = Append(activated, j)
       /\ provided' = provided \cup Decl(j).provides
  /\ todo' = Tail(todo) /\ progress' = TRUE
  /\ UNCHANGED <<stage, jobs, stalled>>

Waits ==
  /\ stage = "scan" /\ todo # <<>>
  /\ LET j == Head(todo) IN
       /\ j.name \in DOMAIN Modules
       /\ ~(Decl(j).inject \subseteq provided)
       /\ stalled' = Append(stalled, j)
  /\ todo' = Tail(todo)
  /\ UNCHANGED <<stage, jobs, progress, provided, activated>>

\* An unknown module, a config or a factory that fails, a service provided
\* twice.
Fails ==
  /\ stage = "scan" /\ todo # <<>>
  /\ LET j == Head(todo) IN
       j.name \in DOMAIN Modules => Decl(j).inject \subseteq provided
  /\ stage' = "failed"
  /\ UNCHANGED <<jobs, todo, stalled, progress, provided, activated>>

\* Mutant: a pass that leaves a job waiting is the last one.
PassEndsEarly ==
  /\ stage = "scan" /\ todo = <<>>
  /\ stage' = IF stalled = <<>> THEN "up" ELSE "unmet"
  /\ UNCHANGED <<jobs, todo, stalled, progress, provided, activated>>

\* The pass is over: none waits, none got further, or the waiting ones are
\* tried again.
PassEnds ==
  /\ stage = "scan" /\ todo = <<>>
  /\ IF stalled = <<>> THEN stage' = "up" /\ UNCHANGED <<todo, stalled, progress>>
     ELSE IF ~progress THEN stage' = "unmet" /\ UNCHANGED <<todo, stalled, progress>>
     ELSE todo' = stalled /\ stalled' = <<>> /\ progress' = FALSE /\ UNCHANGED stage
  /\ UNCHANGED <<jobs, provided, activated>>

TryAll == Succeeds \/ Waits \/ Fails \/ PassEnds

\* The activation by itself, of any list of jobs of a set that has none twice.
ActivationNext(Jobs) == (\E js \in Seq(Jobs) : IsInjective(js) /\ Queue(js)) \/ TryAll
ActivationSpec(Jobs) == ActivationInit /\ [][ActivationNext(Jobs)]_activationVars

-----------------------------------------------------------------------------
(* Properties.                                                             *)

Services(js) == Given \cup UNION {Decl(j).provides : j \in js}

\* The jobs that can be done one after another, in whatever order they are
\* written: what every set contains that lets in each job whose services it
\* provides.
CanActivate ==
  LET all == ToSet(jobs)
      Closed(S) == \A j \in all : Decl(j).inject \subseteq Services(S) => j \in S
  IN  {j \in all : \A S \in SUBSET all : Closed(S) => j \in S}

\* An entry is queued once and activated once, with the services it wants there;
\* and an activation that does not fail comes as far as any order of the entries
\* could, and reports unmet dependencies for exactly the rest
\* (container.go:140-146, 176-201).
ActivatesWhatItCan ==
  /\ IsInjective(jobs) /\ IsInjective(activated)
  /\ \A n \in DOMAIN activated :
       Decl(activated[n]).inject \subseteq Services(ToSet(SubSeq(activated, 1, n - 1)))
  /\ stage \in {"up", "unmet"} =>
       /\ ToSet(activated) = CanActivate
       /\ ToSet(stalled) = ToSet(jobs) \ CanActivate
       /\ stage = "up" <=> stalled = <<>>

-----------------------------------------------------------------------------
(* What the repository says and the code does not do.                      *)

\* No service is provided twice (container.go:242-243).
NoSilentOverwrite ==
  \A m, n \in DOMAIN activated :
    m # n => Decl(activated[m]).provides \cap Decl(activated[n]).provides = {}

=============================================================================
