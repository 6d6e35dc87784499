---------------------------- MODULE MCWorkspaces ----------------------------
(***************************************************************************)
(* Small instances of Workspaces for TLC.  A behaviour belongs to one of   *)
(* them, chosen at its start: each has the rows and the calls that one     *)
(* question is about, and starts from stores the reducers can leave.  The  *)
(* rows an instance does without were deleted before it starts.            *)
(***************************************************************************)
EXTENDS Workspaces, TLC

CONSTANTS
    Chosen,         \* the instances of a run
    ann, bob, w1, w2, e1, e2, t1, k1

NoEpicRow == [life |-> "unborn", parent |-> Root, ws |-> w1, private |-> FALSE,
              creator |-> ann, setter |-> Nobody]
NoTaskRow == [life |-> "unborn", epic |-> Root, owner |-> Nobody, creator |-> ann, done |-> FALSE]
NoPackageRow == [life |-> "unborn", ws |-> w1, private |-> FALSE, creator |-> ann]

(* What the migration leaves: one workspace with everybody in it, nobody   *)
(* an admin of anything.                                                   *)
Migrated ==
    [super |-> {}, ws |-> [w \in Workspace |-> IF w = w1 THEN "live" ELSE "unborn"],
     role |-> [w \in Workspace |-> [p \in Person |-> IF w = w1 THEN "member" ELSE "none"]],
     epic |-> [e \in Epic |-> NoEpicRow], task |-> [t \in Task |-> NoTaskRow],
     package |-> [k \in Package |-> NoPackageRow],
     follows |-> {}, unseen |-> {}, bookmarks |-> {}, links |-> {},
     epicClaim |-> [e \in Epic |-> Nobody], taskClaim |-> [t \in Task |-> Nobody]]

WithoutEpic(s, e) == [s EXCEPT !.epic[e].life = "deleted"]
WithoutWorkspace(s, w) ==
    [s EXCEPT !.ws[w] = "deleted", !.role[w] = [p \in Person |-> "none"]]

(* Later: ann administers every workspace, bob is a member of each.        *)
Settled ==
    [Migrated EXCEPT
         !.super = {ann}, !.ws = [w \in Workspace |-> "live"],
         !.role = [w \in Workspace |->
                       [p \in Person |-> IF p = ann THEN "admin" ELSE "member"]]]

(* ... and ann has made e1, bob e2 inside it or beside it,                 *)
WithEpic(s, e, parent, p) ==
    [s EXCEPT !.epic[e] = [NoEpicRow EXCEPT !.life = "live", !.parent = parent, !.creator = p]]
Pair == {WithEpic(WithEpic(Settled, e1, Root, ann), e2, parent, bob) : parent \in {e1, Root}}

(* ... which may be his alone,                                             *)
Kept == Pair \cup {[s EXCEPT !.epic[e2].private = TRUE] : s \in Pair}

(* ... with a task of his, made without or with the signal to the others.  *)
Filed == {[s EXCEPT !.task[t1] = [NoTaskRow EXCEPT !.life = "live", !.epic = e2,
                                                   !.creator = bob]] : s \in Pair}
Marked == {[s EXCEPT !.unseen = {ann, bob} \X {t1}] : s \in Filed}

Case(start, calls) == [start |-> start, ops |-> calls]

Instances ==
    [people  |-> Case({WithoutEpic(Migrated, e2)},
                      {"admins", "workspaces", "members", "roles", "epics", "packages"}),
     sight   |-> Case(Pair, {"reparent", "flip", "carry", "feed"}),
     follows |-> Case(Pair, {"members", "reparent", "flip", "carry", "follow"}),
     tasks   |-> Case(Filed, {"members", "reparent", "flip", "carry", "poll"}),
     feeds   |-> Case({WithoutWorkspace(s, w2) : s \in Kept}, {"members", "follow", "feed"}),
     links   |-> Case(Filed, {"carry", "move", "packages", "links", "delete"}),
     marks   |-> Case(Marked, {"members", "reparent", "carry", "flip", "move", "marks"}),
     holders |-> Case({Settled},
                      {"admins", "epics", "reparent", "flip", "carry", "tasks", "move", "board"}),
     hatch   |-> Case({WithoutWorkspace(Settled, w2)},
                      {"members", "epics", "hatch", "delete", "tasks"})]

ChosenStarts ==
    UNION {{[store |-> s, ops |-> Instances[i].ops] : s \in Instances[i].start} : i \in Chosen}
=============================================================================
