----------------------------- MODULE ScriptParser -----------------------------
(***************************************************************************)
(* How a process of RCubic turns directories of scripts into the tree it   *)
(* runs: it selects the groups (GroupSelect), RCubicScriptParser reads the *)
(* scripts of each (read_dirs), makes a job of each and adds the           *)
(* dependencies their headers ask for (init_tree); Rcubic._validate draws  *)
(* and checks the tree.  os.listdir promises no order, so the scripts of a *)
(* group are met in any.  An exception ends the start (raised), as does a  *)
(* list of errors (rejected).                                              *)
(*                                                                         *)
(* A header field is a sequence of patterns; a pattern is a name, or a     *)
(* glob.                                                                   *)
(***************************************************************************)
EXTENDS GroupSelect

CONSTANTS
  Names,      \* names of scripts
  Matches,    \* Matches[p]: the names pattern p matches (fnmatchcase)
  Groups,     \* names of groups
  GroupOf,    \* GroupOf[n]: the directory n is in; its prefix
  Root,       \* the name of the whole tree; no IDEP
  Releases    \* configurations and directories the process may find

Patterns == DOMAIN Matches
Trees == Names \cup {Root}

\* What a script's header, and the options for its name, say.
Headers == [hard : Seq(Patterns), soft : Seq(Patterns), child : Seq(Patterns),
            phase : -1 .. 1, within : Trees, iterated : BOOLEAN,
            arguments : Nat, leftOut : BOOLEAN, executable : BOOLEAN]

\* install is the configuration's list of groups and named the groups asked
\* for with -g.  base and override map the names in a directory to headers;
\* whole is the set of groups with fullOverride.
ASSUME ReleaseAssumption ==
  /\ Names \subseteq Patterns /\ Root \notin Patterns /\ IsFiniteSet(Patterns)
  /\ \A n \in Names : n \in Matches[n]
  /\ \A r \in Releases :
       /\ \A dir \in {r.base, r.override} :
            DOMAIN dir \subseteq Names /\ \A n \in DOMAIN dir : dir[n] \in Headers
       /\ r.install \in Seq(GroupElements(Groups))
       /\ \A i, k \in DOMAIN r.install : r.install[i].name = r.install[k].name => i = k
       /\ r.named \cup r.whole \subseteq Groups

VARIABLES
  release,   \* the member of Releases that is on disk
  groups,    \* the selected groups, in order
  unread,    \* directories read_dirs has still to list
  scripts,   \* scripts[g]: group.scripts
  jobs,      \* the jobs of all trees
  deps,      \* the deps of all trees, in the order they were added
  todo,      \* dependencies the headers ask for, still to be added
  step       \* how far the start has come, or how it ended

vars == <<release, groups, unread, scripts, jobs, deps, todo, step>>

Directories(selected, override) ==
  [i \in DOMAIN selected |-> [group |-> selected[i], override |-> override]]

Init ==
  /\ release \in Releases
  /\ groups = <<>> /\ unread = <<>> /\ scripts = [g \in Groups |-> <<>>]
  /\ jobs = {} /\ deps = <<>> /\ todo = <<>>
  /\ step = "select"

SelectGroups ==
  /\ step = "select"
  /\ \E chosen \in {Chosen(release.install, release.named)} :
       IF SelectRaises(chosen, release.named)
         THEN step' = "raised" /\ UNCHANGED <<groups, unread>>
         ELSE /\ groups' = [i \in DOMAIN chosen |-> chosen[i].name]
              /\ unread' = Directories(groups', FALSE) \o Directories(groups', TRUE)
              /\ step' = "read"
  /\ UNCHANGED <<release, scripts, jobs, deps, todo>>

-----------------------------------------------------------------------------
(* Reading the directories.                                                *)

\* add_script of each script of a directory, whose names differ.
AddScripts(list, added, override) ==
  LET names == {s.name : s \in ToSet(added)}
  IN (IF override THEN Among(list, {s \in ToSet(list) : s.name \notin names}) ELSE list)
       \o added

Files(d) ==
  LET dir == IF d.override THEN release.override ELSE release.base
      skip == ~d.override /\ d.group \in release.whole
  IN [n \in {m \in DOMAIN dir : GroupOf[m] = d.group /\ ~skip} |-> dir[n]]

ReadDir ==
  /\ step = "read" /\ unread # <<>>
  /\ LET d == Head(unread)
         files == Files(d)
     IN \E listing \in SetToSeqs(DOMAIN files) :
          scripts' = [scripts EXCEPT ![d.group] =
            AddScripts(@, [i \in DOMAIN listing |->
                             [name |-> listing[i], override |-> d.override,
                              header |-> files[listing[i]]]],
                       d.override)]
  /\ unread' = Tail(unread)
  /\ UNCHANGED <<release, groups, jobs, deps, todo, step>>

AllScripts == FlattenSeq([i \in DOMAIN groups |-> scripts[groups[i]]])

-----------------------------------------------------------------------------
(* Making the jobs.                                                        *)

Job(s) ==
  [tree |-> s.header.within, name |-> s.name, defined |-> ~s.header.leftOut,
   iterated |-> s.header.iterated, arguments |-> s.header.arguments,
   executable |-> s.header.executable]

Placeholder(t, n) ==
  [tree |-> t, name |-> n, defined |-> FALSE, iterated |-> FALSE,
   arguments |-> 0, executable |-> FALSE]

\* In the following, all is AllScripts.
Subtrees(all) == {s.name : s \in {r \in ToSet(all) : r.header.iterated}}

NoSuchTree(all) ==
  \E s \in ToSet(all) : s.header.within \notin Subtrees(all) \cup {Root}

JobDefinedTwice(all) ==
  ~ IsInjective([i \in DOMAIN all |-> <<all[i].header.within, all[i].name>>])

\* The names of scripts that match a pattern, in the order of the scripts.
Matching(all, p) == Among([i \in DOMAIN all |-> all[i].name], Matches[p])

\* Slip: a pattern stands for the first script it matches.
ExpandToFirst(all, patterns) ==
  [i \in DOMAIN patterns |->
     IF Matching(all, patterns[i]) = <<>> THEN patterns[i]
     ELSE Matching(all, patterns[i])[1]]

\* _glob_expand: a pattern that matches nothing stands for itself.
GlobExpand(all, patterns) ==
  FlattenSeq([i \in DOMAIN patterns |->
    IF Matching(all, patterns[i]) = <<>> THEN <<patterns[i]>>
    ELSE Matching(all, patterns[i])])

Asks(s, kind, names) ==
  [i \in DOMAIN names |->
     [kind |-> kind, tree |-> s.header.within, script |-> s.name,
      defined |-> ~s.header.leftOut, other |-> names[i]]]

\* Slip: a script waits for its own phase.
EarlierOrSame(all, s) ==
  LET before == Among(all, {p \in ToSet(all) :
                  /\ p.header.phase <= s.header.phase
                  /\ p.header.within = Root /\ s.header.within = Root})
  IN [i \in DOMAIN before |-> before[i].name]

\* The scripts of earlier phases.
Earlier(all, s) ==
  LET before == Among(all, {p \in ToSet(all) :
                  /\ p.header.phase < s.header.phase
                  /\ p.header.within = Root /\ s.header.within = Root})
  IN [i \in DOMAIN before |-> before[i].name]

Dependencies(all, s) ==
  Asks(s, "hard", GlobExpand(all, s.header.hard))
    \o Asks(s, "soft", GlobExpand(all, s.header.soft))
    \o Asks(s, "child", GlobExpand(all, s.header.child))
    \o Asks(s, "phase", Earlier(all, s))

MakeJobs ==
  /\ step = "read" /\ unread = <<>>
  /\ \E all \in {AllScripts} :
       IF NoSuchTree(all) \/ JobDefinedTwice(all)
         THEN step' = "raised" /\ UNCHANGED <<jobs, todo>>
         ELSE /\ jobs' = {Job(s) : s \in ToSet(all)}
              /\ todo' = FlattenSeq([i \in DOMAIN all |-> Dependencies(all, all[i])])
              /\ step' = "link"
  /\ UNCHANGED <<release, groups, unread, scripts, deps>>

-----------------------------------------------------------------------------
(* Adding the dependencies.                                                *)

JobsIn(t) == {j \in jobs : j.tree = t}

Known(q) == q.other \in {j.name : j \in JobsIn(q.tree)}

Edge(q) ==
  IF q.kind = "child" THEN [tree |-> q.tree, parent |-> q.script, child |-> q.other]
  ELSE [tree |-> q.tree, parent |-> q.other, child |-> q.script]

\* Slip: no dependency counts as a duplicate.
NoDuplicate(q) == FALSE

Duplicate(q) == Edge(q) \in ToSet(deps)

\* add_dep finds both jobs.
AddDep(q) ==
  /\ Known(q) /\ q.other # q.script /\ ~Duplicate(q)
  /\ deps' = Append(deps, Edge(q))
  /\ todo' = Tail(todo)
  /\ UNCHANGED <<jobs, step>>

\* Slip: what a script needs must exist even where the script is left out.
StrictlyExcused(q) == q.kind # "hard"

\* JobUndefinedError is caught.
Excused(q) == q.kind = "hard" => ~q.defined

AddPlaceholder(q) ==
  /\ ~Known(q) /\ Excused(q)
  /\ jobs' = jobs \cup {Placeholder(q.tree, q.other)}
  /\ deps' = Append(deps, Edge(q))
  /\ todo' = Tail(todo)
  /\ UNCHANGED step

\* add_dep returns None for a duplicate; only the loop over phases expects it.
SkipDuplicate(q) ==
  /\ Known(q) /\ Duplicate(q) /\ q.kind = "phase"
  /\ todo' = Tail(todo)
  /\ UNCHANGED <<jobs, deps, step>>

\* JobUndefinedError, DependencyError, or AttributeError on None.
Refuse(q) ==
  /\ \/ ~Known(q) /\ ~Excused(q)
     \/ Known(q) /\ q.other = q.script
     \/ Known(q) /\ Duplicate(q) /\ q.kind # "phase"
  /\ step' = "raised"
  /\ UNCHANGED <<jobs, deps, todo>>

Link ==
  /\ step = "link" /\ todo # <<>>
  /\ LET q == Head(todo)
     IN AddDep(q) \/ AddPlaceholder(q) \/ SkipDuplicate(q) \/ Refuse(q)
  /\ UNCHANGED <<release, groups, unread, scripts>>

-----------------------------------------------------------------------------
(* Queries on the tree.  A recursion that does not end raises.             *)

DepsIn(t) == {d \in ToSet(deps) : d.tree = t}
ParentSet(t, n) == {d.parent : d \in {e \in DepsIn(t) : e.child = n}}
Children(t, n) == {d.child : d \in {e \in DepsIn(t) : e.parent = n}}
DefinedIn(t) == {j.name : j \in {k \in JobsIn(t) : k.defined}}
IteratedIn(t) == {j.name : j \in {k \in JobsIn(t) : k.iterated}}

\* The places in deps of a job's dependencies on its parents.
ParentDeps(t, n) == {i \in DOMAIN deps : deps[i].tree = t /\ deps[i].child = n}

\* What any() is told about a parent; answer is what the parents' own calls return.
Says(t, parent, answer) == IF parent \in DefinedIn(t) THEN "yes" ELSE answer[parent]

\* A call of has_defined_anscestors stops at the first parent that decides.
AskParents(t, answer) ==
  [n \in Patterns |->
     LET Said(i) == Says(t, deps[i].parent, answer)
     IN IF \A i \in ParentDeps(t, n) : Said(i) = "no" THEN "no"
        ELSE Said(First({i \in ParentDeps(t, n) : Said(i) # "no"}))]

HasDefinedAncestors(t) ==
  LET Answer[depth \in Nat] ==
        IF depth = 0 THEN [n \in Patterns |-> "endless"]
        ELSE AskParents(t, Answer[depth - 1])
  IN Answer[Cardinality(jobs) + 1]

Endless(t) == \E j \in JobsIn(t) : HasDefinedAncestors(t)[j.name] = "endless"

Stems(t) == {n \in DefinedIn(t) : HasDefinedAncestors(t)[n] = "no"}

\* The jobs from which a walk up the parents makes more steps than there are jobs.
ClimbForever(t) ==
  LET Climb[depth \in Nat] ==
        IF depth = 0 THEN Patterns
        ELSE {n \in Patterns : \E p \in ParentSet(t, n) : p \in Climb[depth - 1]}
  IN Climb[Cardinality(jobs) + 1]

\* _gparent_compile: the ancestors that are not only parents.
GrandParents(t) ==
  LET gparents[n \in Patterns] ==
        UNION {gparents[p] \cup ParentSet(t, p) : p \in ParentSet(t, n)}
  IN gparents

\* dot_graph raises on a dependency between two subtrees, of those it draws.
CannotDraw(t, drawn) ==
  \E d \in drawn :
    /\ d.child \in IteratedIn(t)
    /\ d.parent \in IteratedIn(t) \/ Endless(d.child)

\* All subtrees nested in the root.
SubtreesOfRoot ==
  LET subtrees == {j.name : j \in {k \in jobs : k.iterated}}
  IN {t \in subtrees : \A S \in SUBSET subtrees :
        (\A u \in {Root} \cup S : IteratedIn(u) \subseteq S) => t \in S}

\* write_status draws the root without the dependencies that follow from
\* others, and the subtrees in it with all of theirs.
WriteStatusRaises ==
  \/ \E t \in SubtreesOfRoot : CannotDraw(t, DepsIn(t))
  \/ \E j \in JobsIn(Root) : j.name \in ClimbForever(Root)
  \/ CannotDraw(Root, {d \in DepsIn(Root) :
                         d.parent \notin GrandParents(Root)[d.child]})

-----------------------------------------------------------------------------
(* Validation.                                                             *)

\* validate_nocycles; path is its list of parents.
NoCycles(t, n) ==
  LET From[path \in SUBSET Patterns] ==
        {m \in Patterns \ path : \A c \in Children(t, m) : c \in From[path \cup {m}]}
  IN n \in From[{}]

\* What validate_nocycles has visited, if it met no cycle.
Visited(t) ==
  LET visited[n \in Patterns] == {n} \cup UNION {visited[c] : c \in Children(t, n)}
  IN visited

\* Slip: a tree is not searched for cycles.
CyclesAllowed(t, stem) == TRUE

Connected(t, stem) ==
  /\ NoCycles(t, stem)
  /\ DefinedIn(t) \subseteq Visited(t)[stem]

\* ExecJob.validate, of a job's own script or iterator.
JobValidates(j) == IF j.iterated THEN j.arguments >= 1 ELSE j.defined => j.executable

Validates[t \in Trees] ==
  /\ Cardinality(Stems(t)) = 1
  /\ \A stem \in Stems(t) : Connected(t, stem)
  /\ \A j \in JobsIn(t) : JobValidates(j) /\ (j.iterated => Validates[j.name])

\* _validate goes on only if a group was selected for its version or by name.
OnlySpecial ==
  \A g \in ToSet(release.install) : g.name \in ToSet(groups) => g.special

\* Rcubic._validate.
Validate ==
  /\ step = "link" /\ todo = <<>>
  /\ step' = IF \/ OnlySpecial
                \/ WriteStatusRaises
                \/ \E t \in {Root} \cup SubtreesOfRoot : Endless(t)
             THEN "raised"
             ELSE IF Validates[Root] /\ \A g \in ToSet(groups) : scripts[g] # <<>>
             THEN "accepted"
             ELSE "rejected"
  /\ UNCHANGED <<release, groups, unread, scripts, jobs, deps, todo>>

Next == SelectGroups \/ ReadDir \/ MakeJobs \/ Link \/ Validate

ParserSpec == Init /\ [][Next]_vars /\ WF_vars(Next)

-----------------------------------------------------------------------------
(* What the directories declare, whatever the order of the listings.       *)

\* The header of each script of the selected groups that is not overridden.
InForce ==
  LET kept == {n \in DOMAIN release.base : GroupOf[n] \notin release.whole}
  IN [n \in {m \in kept \cup DOMAIN release.override : GroupOf[m] \in ToSet(groups)} |->
        IF n \in DOMAIN release.override THEN release.override[n]
        ELSE release.base[n]]

Selected == {n \in DOMAIN InForce : ~InForce[n].leftOut}
Within(t) == {n \in DOMAIN InForce : InForce[n].within = t}

Meant(p) ==
  LET found == Matches[p] \cap DOMAIN InForce
  IN IF found = {} THEN {p} ELSE found

\* A demand: who makes it, in which field and place, and for which dependency.
Demand(n, field, i, other) ==
  [by |-> n, field |-> field, place |-> i, other |-> other,
   dep |-> [tree |-> InForce[n].within,
            parent |-> IF field = "child" THEN n ELSE other,
            child |-> IF field = "child" THEN other ELSE n]]

Demands ==
  UNION {UNION {{Demand(n, field, i, other) : other \in Meant(InForce[n][field][i])}
                : i \in DOMAIN InForce[n][field]}
         : n \in DOMAIN InForce, field \in {"hard", "soft", "child"}}

PhaseDeps ==
  {[tree |-> Root, parent |-> p[1], child |-> p[2]] :
     p \in {q \in Within(Root) \X Within(Root) :
              InForce[q[1]].phase < InForce[q[2]].phase}}

DeclaredDeps == {d.dep : d \in Demands} \cup PhaseDeps

\* The dependencies edges of a tree form a DAG: in every set of names there is one
\* with no child in it.  All of its scripts in defined descend from one of them:
\* they are in every set that has this one and the children of its members.
OneEntryDag(edges, defined) ==
  LET ChildrenOf(S) == {d.child : d \in {e \in edges : e.parent \in S}}
      inherited == {S \in SUBSET Patterns : ChildrenOf(S) \subseteq S}
  IN /\ \A S \in (SUBSET Patterns) \ {{}} : \E n \in S : ChildrenOf({n}) \cap S = {}
     /\ \E entry \in defined : \A S \in inherited : entry \in S => defined \subseteq S

\* A release nothing is wrong with.
WellFormed ==
  LET header == InForce
      demands == Demands
      declared == DeclaredDeps
      Iterated(n) == n \in DOMAIN header /\ header[n].iterated
  IN
  /\ \E g \in ToSet(release.install) : g.name \in ToSet(groups) /\ ~g.special
  /\ release.named \subseteq ToSet(groups)
  /\ \A g \in ToSet(groups) : \E n \in DOMAIN header : GroupOf[n] = g
  /\ \A n \in DOMAIN header :
       LET h == header[n]
       IN /\ h.within = Root \/ Iterated(h.within)
          /\ IF h.iterated THEN h.arguments >= 1 ELSE h.leftOut \/ h.executable
  /\ \A d \in demands :
       /\ \A e \in demands \ {d} : d.dep # e.dep
       /\ d.field = "child" => d.dep \notin PhaseDeps
       /\ d.field = "hard" /\ d.by \in Selected => d.other \in Within(d.dep.tree)
  /\ \A d \in declared :
       ~ \A n \in {d.parent, d.child} : n \in Within(d.tree) /\ Iterated(n)
  /\ \A t \in {Root} \cup {n \in DOMAIN header : Iterated(n)} :
       OneEntryDag({d \in declared : d.tree = t}, Within(t) \cap Selected)

-----------------------------------------------------------------------------
(* Properties.                                                             *)

\* Whatever was overridden and left out, a tree has one job of a name, and
\* dependencies relate two different jobs of their tree, each pair once:
\* what add_job and add_dep are there to ensure.
ParserTypeOK ==
  /\ step \in {"select", "read", "link", "accepted", "rejected", "raised"}
  /\ \A j, k \in jobs : j.tree = k.tree /\ j.name = k.name => j = k
  /\ \A d \in ToSet(deps) :
       /\ d.parent # d.child
       /\ {d.parent, d.child} \subseteq {j.name : j \in JobsIn(d.tree)}
  /\ IsInjective(deps)

\* A sequence that is going to run is a DAG, in the root and in every
\* subtree, and all its scripts descend from one entry script: what the
\* searches of has_defined_anscestors and validate_nocycles amount to, from
\* every stem and with placeholders in between.
AcceptedIsSound ==
  step = "accepted" =>
    \A t \in {Root} \cup SubtreesOfRoot : OneEntryDag(DepsIn(t), DefinedIn(t))

\* No release that nothing is wrong with is refused: whatever the order of the
\* listings, init_tree raises for none of its dependencies, although it meets
\* them one by one and makes placeholders on the way, and _validate's searches
\* find nothing in it.
RefusedForCause ==
  step \in {"rejected", "raised"} => ~WellFormed

\* When all dependencies have been added they are those the headers declare
\* and the phases imply, in whatever order the scripts were listed, overridden
\* and linked, and whichever placeholders were made first.
GraphAsDeclared ==
  step \in {"accepted", "rejected"} => ToSet(deps) = DeclaredDeps

\* The start comes to an end, and it accepts every release that nothing is
\* wrong with: no order of the listings makes init_tree or _validate refuse
\* it.
StartDecides ==
  <> \/ step = "accepted"
     \/ step \in {"rejected", "raised"} /\ ~WellFormed

\* A group that was not asked for and is not special is replaced by a later
\* version only, whatever the lengths and suffixes of the two versions: the
\* padding that verComp forgets costs an upgrade, and never brings about a
\* downgrade.
AutoselectUpgrades ==
  release.named = {} =>
    \A g \in ToSet(release.install) :
      /\ g.name \in ToSet(groups) /\ ~g.special /\ g.installed # NotInstalled
      /\ Readable(g.version) /\ Readable(g.installed)
      => Later(g.version, g.installed)
=============================================================================
