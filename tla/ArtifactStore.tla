---------------------------- MODULE ArtifactStore ----------------------------
(***************************************************************************)
(* What pcdiag promises about the artifacts of its sessions, with no file, *)
(* no process and no interrupt in sight: an artifact appears whole and at  *)
(* once, never replaces one that is there, and names as its inputs only    *)
(* artifacts that were published before it, of its own session and from    *)
(* one another.  The user may damage, remove and copy what was published;  *)
(* the program may not.                                                    *)
(***************************************************************************)
EXTENDS Naturals, FiniteSets

CONSTANTS
    Authors,    \* who may write an artifact: runs of the program, old and new
    Places,     \* names of finished session directories
    Missing     \* no artifact

VARIABLES
    shelf,      \* shelf[s][st]: the manifest of the artifact in place, or Missing
    spoiled,    \* the places <<s, st>> whose files no longer match the manifest
    ever        \* every manifest ever published

storeVars == <<shelf, spoiled, ever>>

Stages == {"collect", "diagnose", "report"}

\* An artifact id is a fresh UUIDv4: the run that drew it, and its stage.
Ids == Authors \X Stages

\* A session id is the UUIDv4 drawn by the run that collected.
Manifests == [stage : Stages, by : Authors, session : Authors, inputs : SUBSET Ids]

IdOf(m) == <<m.by, m.stage>>

\* A finished session holds at least its collection.
StoreInit ==
    /\ shelf \in [Places -> [Stages -> Manifests \cup {Missing}]]
    /\ \A s \in Places : \A st \in {"diagnose", "report"} : shelf[s][st] = Missing
    /\ ever = {shelf[s]["collect"] : s \in Places} \ {Missing}
    /\ \A m \in ever : m.stage = "collect" /\ m.session = m.by /\ m.inputs = {}
    /\ spoiled = {}

\* What publishing any artifact does.
Publish(s, m) ==
    /\ ever' = ever \cup {m}
    /\ \A e \in ever : IdOf(e) # IdOf(m)
    /\ shelf[s][m.stage] = Missing
    /\ shelf' = [shelf EXCEPT ![s][m.stage] = m]
    /\ UNCHANGED spoiled

PublishCollection(s, a) ==
    Publish(s, [stage |-> "collect", by |-> a, session |-> a, inputs |-> {}])

PublishDiagnosis(s, a, c) ==
    /\ c.stage = "collect"
    /\ Publish(s, [stage |-> "diagnose", by |-> a, session |-> c.session,
                   inputs |-> {IdOf(c)}])

\* The diagnosis a report shows was made from the collection it shows.
PublishReport(s, a, c, d) ==
    /\ c.stage = "collect" /\ d.stage = "diagnose"
    /\ d.session = c.session /\ d.inputs = {IdOf(c)}
    /\ Publish(s, [stage |-> "report", by |-> a, session |-> c.session,
                   inputs |-> {IdOf(c), IdOf(d)}])

UserDamages(s, st) ==
    /\ spoiled' = spoiled \cup {<<s, st>>}
    /\ shelf[s][st] # Missing
    /\ UNCHANGED <<shelf, ever>>

UserRemoves(s, st) ==
    /\ shelf[s][st] # Missing
    /\ shelf' = [shelf EXCEPT ![s][st] = Missing]
    /\ spoiled' = spoiled \ {<<s, st>>}
    /\ UNCHANGED ever

UserCopies(s, t, st) ==
    /\ shelf[s][st] = Missing /\ shelf[t][st] # Missing
    /\ shelf' = [shelf EXCEPT ![s][st] = shelf[t][st]]
    /\ spoiled' = IF <<t, st>> \in spoiled THEN spoiled \cup {<<s, st>>} ELSE spoiled
    /\ UNCHANGED ever

StoreNext ==
    \/ \E s \in Places, a \in Authors :
         \/ PublishCollection(s, a)
         \/ /\ shelf[s]["collect"] # Missing
            /\ \E c \in ever : \/ PublishDiagnosis(s, a, c)
                               \/ \E d \in ever : PublishReport(s, a, c, d)
    \/ \E s \in Places, st \in Stages : UserDamages(s, st) \/ UserRemoves(s, st)
    \/ \E s, t \in Places, st \in Stages : UserCopies(s, t, st)

StoreSpec == StoreInit /\ [][StoreNext]_storeVars
=============================================================================
