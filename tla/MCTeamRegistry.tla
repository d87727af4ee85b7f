--------------------------- MODULE MCTeamRegistry ---------------------------
(* Instances of TeamRegistry: two clones, their tasks, paths and menus. *)
EXTENDS TeamRegistry

CONSTANTS ann, bob, c1, c2, t1, t2, b1, b2, p1

mcWorkers == {ann, bob}
mcTasks   == {t1, t2}

\* t2 holds a directory, t1 a file in it; rescoping t1 moves it beside t2.
root  == <<"cloud", "src">>
mcScopes    == {root, root \o <<"app">>, <<"cloud", "docs">>}
mcRequired  == [t \in {t1, t2} |-> {}]
mcResources == [t \in {t1, t2} |-> {}]
noDependencies == [t \in {t1, t2} |-> {}]
chain          == [t \in {t1, t2} |-> IF t = t2 THEN {t1} ELSE {}]

twoWorkers == [c \in {c1, c2} |-> IF c = c1 THEN ann ELSE bob]
oneWorker  == [c \in {c1, c2} |-> ann]
mcHead     == [p \in {p1} |-> b1]
noHead     == [p \in {} |-> b1]

Command(action, t, b, scopes, p) ==
  [action |-> action, task |-> t, branch |-> b, scopes |-> scopes, pr |-> p]
Simply(action, t) == Command(action, t, None, {}, None)

\* Overlapping claims and rescopes of two tasks, given back and taken again.
claimMenu ==
  [c \in {c1, c2} |->
     IF c = c1
     THEN {Command("claim", t1, b1, {root \o <<"app">>}, None),
           Command("claim", t1, b2, {<<"cloud", "docs">>}, None),
           Command("rescope", t1, None, {root}, None),
           Simply("block", t1), Simply("release", t1)}
     ELSE {Command("claim", t2, b2, {root}, None),
           Command("claim", t1, b2, {root}, None), Simply("heartbeat", t2)}]

\* From claim to done with a pull request, or given back and claimed anew; t2 waits for t1.
reviewMenu ==
  [c \in {c1, c2} |->
     IF c = c1
     THEN {Command("claim", t1, b1, {root}, None), Command("review", t1, None, {}, p1),
           Command("complete", t1, None, {}, p1), Simply("release", t1),
           Command("claim", t1, b2, {root}, None)}
     ELSE {Command("claim", t2, b2, {<<"cloud", "docs">>}, None)}]

\* One task, one worker name, two clones.
sameNameMenu ==
  [c \in {c1, c2} |->
     IF c = c1 THEN {Command("claim", t1, b1, {root}, None), Simply("heartbeat", t1)}
     ELSE {Command("claim", t1, b2, {root}, None), Simply("release", t1)}]
oneTask      == {t1}
noDeps1      == [t \in {t1} |-> {}]
oneRequired  == [t \in {t1} |-> {}]
oneResources == [t \in {t1} |-> {}]

=============================================================================
