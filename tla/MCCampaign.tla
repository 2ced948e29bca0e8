----------------------------- MODULE MCCampaign -----------------------------
(* Small campaigns: the model values wRef, wNeutral, wTarget and wOption   *)
(* are one reference, one neutral, one required and one optional target.   *)
EXTENDS Campaign

CONSTANTS wRef, wNeutral, wTarget, wOption, c1, c2, c3

MCKind ==
  [w \in Worlds |-> CASE w = wRef -> "REFERENCE" [] w = wNeutral -> "NEUTRAL" [] OTHER -> "TARGET"]
MCWeight ==
  [w \in Worlds |-> CASE w \in {wRef, wNeutral} -> 0 [] w = wTarget -> 1 [] OTHER -> 2]
MCRequired == Worlds \ {wOption}
MCCounts == {0, 1}

MCWorldAt == [i \in 1 .. NW |-> <<wRef, wNeutral, wTarget, wOption>>[i]]
MCCandidateAt == [i \in 1 .. NC |-> <<c1, c2, c3>>[i]]
(* c2 is smaller than c1 and c3, which only their rank tells apart. *)
MCSize == [c \in Candidates |-> IF c = c2 THEN 1 ELSE 2]
MCRank == [c \in Candidates |-> CASE c = c1 -> 2 [] c = c2 -> 3 [] OTHER -> 1]

Result(outcome, tests, attributed) ==
  [outcome |-> outcome, candidateTests |-> tests, attributed |-> attributed]

Green == Result("PASS", 1, TRUE)
Kill == Result("ASSERTION_FAILURE", 1, TRUE)
Crash == Result("PROCESS_CRASH", 1, FALSE)
Late == Result("TIMEOUT", 0, FALSE)
Clean == Result("PASS", 0, FALSE)
Broken == Result("INFRA_ERROR", 0, FALSE)
Leaking == Result("PASS", 1, TRUE)   \* a structured adapter credits a control

(* A failure that the report does not credit to the candidate's own test. *)
Foreign == Result("ASSERTION_FAILURE", 1, FALSE)

FourResults == {Green, Kill, Crash, Late}

(* Two candidates.  Either may let a target survive; c1 may also fail on   *)
(* the neutral world or by a foreign failure, and c2 may time out.  The    *)
(* control of the neutral world may be broken in any attempt.              *)
ResultsOfTwo(c, w) ==
  CASE c = Control -> IF w = wNeutral THEN {Clean, Broken} ELSE {Clean}
    [] c = c1 -> CASE w = wRef -> {Green}
                   [] w = wOption -> {Kill, Foreign}
                   [] OTHER -> {Green, Kill}
    [] OTHER -> CASE w = wRef -> {Green, Late}
                  [] w = wNeutral -> {Green}
                  [] OTHER -> {Green, Kill}

(* One candidate, with every result in every world, *)
ResultsOfOne(c, w) == IF c = Control THEN {Clean, Broken, Leaking} ELSE FourResults

(* and with controls that are broken at worst. *)
ResultsOfNamed(c, w) == IF c = Control THEN {Clean, Broken} ELSE FourResults

Local == {[isolation |-> "local", transport |-> "auto"]}
AllModes == {m \in [isolation : Isolations, transport : Transports] :
               m.isolation = "container" \/ m.transport = "auto"}
=============================================================================
