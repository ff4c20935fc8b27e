---------------------------- MODULE Configuration ----------------------------
(***************************************************************************)
(* The file of a pipeline, from the two ways there are to make one to the  *)
(* graph that is run: `create` builds it interactively (cli/commands/      *)
(* _juturna_config_creator.py), or someone writes it by hand; `validate`   *)
(* may check it (validate.py); `launch` runs it (launch.py, and warmup()   *)
(* and start() of _pipeline.py, of which module Pipeline has the rest).    *)
(* What is said of a node here is its name and whether its type is         *)
(* "source"; every mark exists.                                            *)
(***************************************************************************)
EXTENDS Dag

CONSTANTS
  Numeral,   \* the value of each name that int() takes for a number
  None,      \* no text, no reference
  Files,     \* files written by hand
  MaxNodes,  \* bound: nodes added in the creator
  MaxLinks   \* bound: links added in the creator

Types == {"source", "other"}
Nodes == [name : Names, type : Types]

ASSUME ConfigurationAssumption ==
  /\ None \notin Names
  /\ DOMAIN Numeral \subseteq Names /\ Range(Numeral) \subseteq Nat
  /\ Files \subseteq [nodes : Seq(Nodes), links : Seq(Names \X Names)]
  /\ MaxNodes \in Nat /\ MaxLinks \in Nat

VARIABLES
  stage,     \* "creator", "file", "checking", "launched", "failed" or "left"
  nodes,     \* nodes of the pipeline
  links,     \* its links
  mode,      \* _mode: "base" or "link"
  from,      \* _links['from'], None where there is none
  created,   \* the file is the creator's
  verdict    \* of validate: "none", "valid" or "invalid"

fileVars == <<nodes, links, created>>
creatorVars == <<mode, from>>
vars == <<stage, nodes, links, mode, from, created, verdict, dagVars>>

NamesOf(ns) == [i \in DOMAIN ns |-> ns[i].name]
Named == Range(NamesOf(nodes))

\* Of the nodes of one name the last is the one that counts.
TypeOf(n) == nodes[CHOOSE i \in DOMAIN nodes :
                     nodes[i].name = n /\ \A j \in DOMAIN nodes : nodes[j].name = n => j <= i].type

\* Keys of a dict are in the order in which they came first.
FirstAt == [n \in Named |->
              CHOOSE i \in DOMAIN nodes :
                nodes[i].name = n /\ \A j \in DOMAIN nodes : nodes[j].name = n => i <= j]

Init ==
  /\ \/ /\ stage = "creator" /\ created = TRUE
        /\ nodes = <<>> /\ links = <<>>
     \/ /\ stage = "file" /\ created = FALSE
        /\ \E f \in Files : nodes = f.nodes /\ links = f.links
  /\ mode = "base" /\ from = None
  /\ verdict = "none"
  /\ DagInit

-----------------------------------------------------------------------------
(***************************************************************************)
(* The creator. Texts are typed with or without blanks around them.        *)
(***************************************************************************)
Texts == [body : Names \cup {None}, blank : BOOLEAN]
Strip(t) == t.body

\* The prompt for the name asks again until it is a new one.
CreateNode(t, type) ==
  /\ stage = "creator" /\ mode = "base"
  /\ Len(nodes) < MaxNodes
  /\ Strip(t) \notin Named \cup {None}
  /\ nodes' = Append(nodes, [name |-> Strip(t), type |-> type])
  /\ UNCHANGED <<stage, links, mode, from, created, verdict, dagVars>>

\* Mutant: what was typed is taken for the name of a node.
ResolveTyped(t) == t.body

\* An index, blanks or not; or else the name of a node as it stands.
Resolve(t) ==
  IF t.body \in DOMAIN Numeral /\ Numeral[t.body] < Len(nodes)
  THEN nodes[Numeral[t.body] + 1].name
  ELSE IF t.body \in Named /\ ~t.blank THEN t.body
  ELSE None

LinkMode ==
  /\ stage = "creator" /\ mode = "base"
  /\ Len(nodes) >= 2 /\ Len(links) < MaxLinks
  /\ mode' = "link"
  /\ from' = None
  /\ UNCHANGED <<stage, fileVars, verdict, dagVars>>

\* A reference that leads nowhere ends the link mode.
LinkFrom(t) ==
  /\ stage = "creator" /\ mode = "link" /\ from = None
  /\ from' = Resolve(t)
  /\ mode' = IF from' = None THEN "base" ELSE "link"
  /\ UNCHANGED <<stage, fileVars, verdict, dagVars>>

LinkTo(t) ==
  /\ stage = "creator" /\ mode = "link" /\ from # None
  /\ links' = IF Resolve(t) \in {None, from} THEN links
                                             ELSE Append(links, <<from, Resolve(t)>>)
  /\ mode' = "base"
  /\ from' = None
  /\ UNCHANGED <<stage, nodes, created, verdict, dagVars>>

\* An interrupt while a link is made; elsewhere it leaves all as it is.
LinkInterrupted ==
  /\ stage = "creator" /\ mode = "link"
  /\ mode' = "base"
  /\ from' = None
  /\ UNCHANGED <<stage, fileVars, verdict, dagVars>>

\* A save that is not confirmed or cannot write leaves all as it is.
Save ==
  /\ stage = "creator" /\ mode = "base"
  /\ stage' = "file"
  /\ UNCHANGED <<fileVars, creatorVars, verdict, dagVars>>

\* The end of the input leaves the loop in either mode, whatever is answered to
\* "Exit without saving?"; .exit, in the base mode, only if it is confirmed.
Exit ==
  /\ stage = "creator"
  /\ stage' = "left"
  /\ UNCHANGED <<fileVars, creatorVars, verdict, dagVars>>

-----------------------------------------------------------------------------
(***************************************************************************)
(* validate, which ends with an exception where a check fails.             *)
(***************************************************************************)
Validate ==
  /\ stage = "file" /\ verdict = "none"
  /\ IF Dangling(Named, links)
     THEN /\ verdict' = "invalid"
          /\ UNCHANGED <<stage, dagVars>>
     ELSE /\ stage' = "checking"
          /\ Build(Named, links)
          /\ UNCHANGED verdict
  /\ UNCHANGED <<fileVars, creatorVars>>

HasCycleBegin ==
  /\ stage = "checking"
  /\ Begin("cycle", FirstAt)
  /\ UNCHANGED <<stage, fileVars, creatorVars, verdict>>

HasCycleVisit ==
  /\ VisitLast
  /\ UNCHANGED <<stage, fileVars, creatorVars, verdict>>

\* Mutant: the type is not looked at.
HeadsAny == \A n \in Added : InDegree(n) = 0 => n \in Named

HeadsAreSources == \A n \in Added : InDegree(n) = 0 => TypeOf(n) = "source"

\* Sinks with output links are only warned of, and sources with input links
\* are not looked for. What run_checks() calls again finds the same.
CheckDagProperties ==
  /\ stage = "checking"
  /\ WalkOver("cycle")
  /\ verdict' = IF HasCycle \/ ~HeadsAreSources THEN "invalid" ELSE "valid"
  /\ stage' = "file"
  /\ UNCHANGED <<fileVars, creatorVars, dagVars>>

-----------------------------------------------------------------------------
\* launch: warmup() looks up both ends of a link among the nodes, and start()
\* wants at least one node.
Launch ==
  /\ stage = "file"
  /\ IF Dangling(Named, links) \/ nodes = <<>>
     THEN stage' = "failed" /\ UNCHANGED dagVars
     ELSE stage' = "launched" /\ Build(Named, links)
  /\ UNCHANGED <<fileVars, creatorVars, verdict>>

BFSBegin ==
  /\ stage = "launched"
  /\ Begin("bfs", FirstAt)
  /\ UNCHANGED <<stage, fileVars, creatorVars, verdict>>

BFSVisit ==
  /\ Visit
  /\ UNCHANGED <<stage, fileVars, creatorVars, verdict>>

Next ==
  \/ \E t \in Texts, type \in Types : CreateNode(t, type)
  \/ LinkMode
  \/ \E t \in Texts : LinkFrom(t) \/ LinkTo(t)
  \/ LinkInterrupted
  \/ Save
  \/ Exit
  \/ Validate
  \/ HasCycleBegin
  \/ HasCycleVisit
  \/ CheckDagProperties
  \/ Launch
  \/ BFSBegin
  \/ BFSVisit

Spec == Init /\ [][Next]_vars

-----------------------------------------------------------------------------
TypeOK ==
  /\ stage \in {"creator", "file", "checking", "launched", "failed", "left"}
  /\ nodes \in Seq(Nodes)
  /\ links \in Seq(Names \X Names)
  /\ mode \in {"base", "link"} /\ from \in Named \cup {None}
  /\ mode = "base" => from = None
  /\ created \in BOOLEAN
  /\ verdict \in {"none", "valid", "invalid"}
  /\ DagTypeOK

\* Whatever is typed, the creator links nodes that are there, and no node to
\* itself, so that what it saves can be launched; so can what validate lets
\* pass. Both let a pipeline without a node through, which start() refuses.
Launchable ==
  /\ created => /\ IsInjective(NamesOf(nodes))
                /\ \A i \in DOMAIN links : links[i][1] # links[i][2]
  /\ stage = "failed" /\ (created \/ verdict = "valid") => nodes = <<>>

\* start() and stop() reach every node of a pipeline that validate lets pass,
\* each once, and the last that start() comes to are sources, and nothing else.
\* Nothing of the kind holds of what the creator saves: it may have a cycle, or
\* the same link twice, and then the layers leave nodes out.
ValidatedIsPlaced ==
  verdict = "valid" /\ stage = "launched" /\ WalkOver("bfs") =>
    /\ AllPlaced
    /\ \A n \in Added : layers # <<>> /\ InLayer(n, 1) => TypeOf(n) = "source"
=============================================================================
