-------------------------- MODULE EstimationWorlds --------------------------
(***************************************************************************)
(* The data that an estimation may find: all worlds that differ from a     *)
(* first one in at most MaxChanges places: a row that is missing or not    *)
(* usable, a fund without a classification, a mapping that is added or     *)
(* ends.                                                                   *)
(***************************************************************************)
EXTENDS EstimationInputs, Sequences

CONSTANTS
    FirstWorld,
    MaxChanges          \* bound

World == [nav : [Shares -> Rows], class : [Shares -> Classes \cup {None}],
          mappings : Seq(Mapping), index : [Indexes -> Rows]]

ASSUME WorldAssumption == FirstWorld \in World /\ MaxChanges \in Nat

VARIABLES found, changes

DataInit == found = FirstWorld /\ changes = 0

Change(next) ==
    /\ changes < MaxChanges
    /\ changes' = changes + 1
    /\ found' = next

LoseNav == \E s \in Shares : \E d \in DOMAIN found.nav[s] :
    Change([found EXCEPT !.nav[s] = Restrict(@, DOMAIN @ \ {d})])
SpoilNav == \E s \in Shares : \E d \in DOMAIN found.nav[s] :
    Change([found EXCEPT !.nav[s] = [@ EXCEPT ![d] = "UNAVAILABLE"]])
LoseIndex == \E i \in Indexes : \E d \in DOMAIN found.index[i] :
    Change([found EXCEPT !.index[i] = Restrict(@, DOMAIN @ \ {d})])
SpoilIndex == \E i \in Indexes : \E d \in DOMAIN found.index[i] :
    Change([found EXCEPT !.index[i] = [@ EXCEPT ![d] = "UNAVAILABLE"]])
Unclassify == \E s \in Shares : Change([found EXCEPT !.class[s] = None])

(* A mapping is of one fund or of one classification; the last ones that   *)
(* may be added become available after the decision.                       *)
AddMapping ==
    \E benchmark \in Benchmarks, from \in Days, to \in Days \cup {None},
       at \in {1, LastDay + 1} :
        \E row \in [share : Shares, class : {None}, benchmark : {benchmark},
                    from : {from}, to : {to}, at : {at}]
                   \cup [share : {None}, class : Classes, benchmark : {benchmark},
                         from : {from}, to : {to}, at : {at}] :
            /\ to # None => from < to
            /\ Change([found EXCEPT !.mappings = Append(@, row)])

EndMapping == \E k \in DOMAIN found.mappings : \E to \in Days :
    /\ found.mappings[k].from < to
    /\ Change([found EXCEPT !.mappings[k].to = to])

DataNext ==
    \/ LoseNav \/ SpoilNav \/ LoseIndex \/ SpoilIndex
    \/ Unclassify \/ AddMapping \/ EndMapping

DataSpec == DataInit /\ [][DataNext]_<<found, changes>>

-----------------------------------------------------------------------------
(* See SegmentsAgree in EstimationInputs: the segments of a window and the *)
(* look-up of a day choose the same benchmark mapping.                     *)
SegmentsAreResolutions == SegmentsAgree(found)

(* See ExcessKeepsToOneBenchmark in EstimationInputs: no excess return     *)
(* compares with two benchmarks or with an index that has no value, and    *)
(* neither of its two returns steps over a stored value.                   *)
OneBenchmark == ExcessKeepsToOneBenchmark(found)

(* See SwitchesAreShown in EstimationInputs: a change of the mapping inside *)
(* a fund's window is listed and warned of, and its day is not sampled.     *)
SwitchesShow == SwitchesAreShown(found)

=============================================================================
