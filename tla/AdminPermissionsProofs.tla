----------------------- MODULE AdminPermissionsProofs -----------------------
(***************************************************************************)
(* Proofs about AdminPermissions for any workspaces, slots, users,         *)
(* requests and retries.                                                   *)
(***************************************************************************)
EXTENDS AdminPermissions, TLAPS

\* The directory of a workspace is created before its list.
Listed ==
    /\ \A w \in Workspaces \ dirs : file[w] = None
    /\ \A q \in Requests : pc[q] = "truncate" /\ Target(q) \in Workspaces => Target(q) \in dirs

\* What a regeneration has read is what it should emit, of every list that has not changed
\* since.
ReadSo(q) ==
    pc[q] \in Scanning =>
        /\ \A s \in Slots : s \in todo[q] => SlotOf[s] \in dirs
        /\ pc[q] # "scan" => todo[q] = {}
        /\ \A l \in Lists \ (behind[q] \union todo[q] \union exposed) : got[q][l] = Expected(l)

\* Nobody else is inside a write of the conf.
WritesAlone(q) ==
    pc[q] = "fillConf" =>
        \/ exposed = Lists
        \/ conf = NoRules /\ \A p \in Requests \ {q} : pc[p] # "fillConf"

\* A request whose regeneration will give list l its rules.
Covers(q, l) ==
    \/ pc[q] \in {"truncate", "fill", "open", "scan", "truncateConf"} /\ l \in Related(Target(q))
    \/ pc[q] = "fillConf"

Generated ==
    \A l \in Lists \ exposed : conf[l] = Expected(l) \/ \E q \in Requests : Covers(q, l)
Scheduled ==
    \A l \in Lists \ exposed :
        published[l] = conf[l] \/ dirty \/ \E q \in Requests : pc[q] \in {"fillConf", "schedule"}

ConfInv == Listed /\ (\A q \in Requests : ReadSo(q) /\ WritesAlone(q)) /\ Generated /\ Scheduled

\* The requests that can take the member of q away again.
Removals(q) ==
    {p \in Requests : /\ Op[p].list = Op[q].list
                      /\ Op[p].kind = "pairDelete" \/ Op[p].name = Op[q].name
                      /\ Op[p].kind \notin {"add", "pairAdd"}}

\* Request q has added its member, and nothing has been done to take it away.
Kept(q) ==
    /\ Op[q].kind \in {"add", "pairAdd"}
    /\ result[q] = "changed" /\ pc[q] \notin Editing
    /\ \A p \in Removals(q) : result[p] = "none"
    /\ Target(q) \notin damaged

EditsSo ==
    \A p \in Requests :
        /\ pc[p] = "fill" => file[Target(p)] # None \/ Target(p) \in damaged
        /\ pc[p] \in Editing /\ Op[p].kind \in {"add", "pairAdd"} => Op[p].name \in buf[p]
KeptSo(q) ==
    /\ Op[q].name \in Content(Target(q)) \/ Filling(Target(q)) # {}
    /\ \A p \in Requests :
          /\ pc[p] \in {"makeDir", "truncate"} /\ Target(p) = Target(q) =>
                Op[q].name \in buf[p] \/ Filling(Target(q)) # {}
          /\ pc[p] = "fill" /\ Target(p) = Target(q) => Op[q].name \in buf[p]
KeepsInv == EditsSo /\ \A q \in Requests : Kept(q) => KeptSo(q)

-----------------------------------------------------------------------------
(* Type correctness *)

IInv == TypeOK /\ ConfInv /\ KeepsInv

\* What the assumptions say of one request and of the lists.
LEMMA Params ==
    ASSUME setting \in Settings
    PROVE  /\ \A q \in Requests : /\ Op[q].kind \in Kinds
                                  /\ Op[q].name \in Names
                                  /\ Op[q].list \in Lists /\ Target(q) \in Lists
                                  /\ Op[q].kind \in {"add", "remove"} <=> Op[q].list \in Workspaces
           /\ Faults \in SUBSET AllFaults
           /\ \A s \in Slots : SlotOf[s] \in Workspaces /\ s \notin Workspaces
           /\ \A l \in Lists : l \in Related(l) /\ Related(l) \subseteq Lists
           /\ NoRules \in [Lists -> SUBSET Names]
<1>1. setting \in [op : [Requests -> [kind : Kinds, list : Lists, name : Names]],
                   faults : SUBSET AllFaults]
  BY PermissionsAssumption
<1>2. setting.op \in [Requests -> [kind : Kinds, list : Lists, name : Names]]
      /\ setting.faults \in SUBSET AllFaults
  BY <1>1
<1>3. \A q \in Requests : /\ Op[q].kind \in Kinds
                          /\ Op[q].name \in Names
                          /\ Op[q].list \in Lists /\ Target(q) \in Lists
  BY <1>2 DEF Op, Target
<1>4. \A q \in Requests : Op[q].kind \in {"add", "remove"} <=> Op[q].list \in Workspaces
  BY PermissionsAssumption DEF Op
<1>5. /\ \A s \in Slots : SlotOf[s] \in Workspaces /\ s \notin Workspaces
      /\ \A l \in Lists : l \in Related(l) /\ Related(l) \subseteq Lists
      /\ NoRules \in [Lists -> SUBSET Names]
  BY PermissionsAssumption DEF Lists, Related, NoRules
<1>6. QED
  BY <1>2, <1>3, <1>4, <1>5 DEF Faults

LEMMA ContentType ==
    ASSUME file \in [Lists -> (SUBSET Names) \union {None}]
    PROVE  \A l \in Lists : Content(l) \in SUBSET Names
<1> SUFFICES ASSUME NEW l \in Lists
             PROVE  Content(l) \in SUBSET Names
  OBVIOUS
<1>1. file[l] \in SUBSET Names \/ file[l] = None
  <2>1. file[l] \in (SUBSET Names) \union {None}
    OBVIOUS
  <2>2. QED
    BY <2>1, Zenon
<1>2. QED
  BY <1>1 DEF Content

LEMMA TypeStep ==
    ASSUME TypeOK, Next
    PROVE  TypeOK'
<1>1. setting' = setting /\ setting' \in Settings
  BY DEF Next, TypeOK
<1>2. \A l \in Lists : Content(l) \in SUBSET Names
  BY ContentType DEF TypeOK
<1>. USE Params, <1>1, <1>2
<1>3. ASSUME NEW q \in Requests, NEW content \in SUBSET Names, Edit(q, content)
      PROVE  TypeOK'
  BY <1>3 DEF TypeOK, Edit, Goto, Reply, registry, scan, history, Steps, Editing, Scanning, Results
<1>4. ASSUME NEW q \in Requests, NEW r \in Results, NoChange(q, r)
      PROVE  TypeOK'
  BY <1>4 DEF TypeOK, NoChange, Goto, Reply, registry, scan, history, Steps, Editing, Scanning, Results
<1>5. ASSUME NEW q \in Requests, AddMember(q)
      PROVE  TypeOK'
  <2>1. CASE Op[q].name \notin Content(Target(q))
    BY <2>1, <1>3, <1>5 DEF AddMember
  <2>2. CASE Op[q].name \in Content(Target(q))
    BY <2>2, <1>5
       DEF AddMember, TypeOK, Goto, Reply, registry, scan, history, Steps, Editing, Scanning, Results
  <2>3. QED
    BY <2>1, <2>2
<1>6. ASSUME NEW q \in Requests, RemoveMember(q)
      PROVE  TypeOK'
  BY <1>3, <1>4, <1>6 DEF RemoveMember, Results
<1>7. ASSUME NEW q \in Requests, AddPairMember(q)
      PROVE  TypeOK'
  BY <1>3, <1>4, <1>7 DEF AddPairMember, Results
<1>8. ASSUME NEW q \in Requests, NEW l \in Lists, Changes(q, l)
      PROVE  behind' \in [Requests -> SUBSET Lists] /\ damaged' \subseteq Lists
  BY <1>8 DEF Changes, Outdates, TypeOK
<1>9. ASSUME NEW q \in Requests, DeleteSlot(q)
      PROVE  TypeOK'
  <2>1. CASE file[Target(q)] # None
    <3>1. behind' \in [Requests -> SUBSET Lists] /\ damaged' \subseteq Lists
      BY <2>1, <1>8, <1>9 DEF DeleteSlot, NoChange
    <3>2. file' \in [Lists -> (SUBSET Names) \union {None}]
      BY <2>1, <1>9 DEF DeleteSlot, NoChange, TypeOK
    <3>3. pc' \in [Requests -> Steps] /\ result' \in [Requests -> Results]
      BY <2>1, <1>9 DEF DeleteSlot, NoChange, TypeOK, Goto, Reply, Steps, Results
    <3>4. UNCHANGED <<dirs, conf, dirty, published, buf, todo, got, retries, exposed>>
      BY <2>1, <1>9 DEF DeleteSlot, NoChange, scan
    <3>5. QED
      BY <3>1, <3>2, <3>3, <3>4 DEF TypeOK
  <2>2. CASE file[Target(q)] = None
    BY <2>2, <1>4, <1>9 DEF DeleteSlot, Results
  <2>3. QED
    BY <2>1, <2>2
<1>10. ASSUME NEW q \in Requests, Truncate(q)
       PROVE  TypeOK'
  BY <1>8, <1>10 DEF Truncate, TypeOK, Goto, scan, Steps, Editing, Scanning
<1>23. ASSUME NEW q \in Requests, MakeDir(q)
       PROVE  TypeOK'
  <2>1. behind' \in [Requests -> SUBSET Lists]
    BY <1>23 DEF MakeDir, Outdates, TypeOK
  <2>2. QED
    BY <2>1, <1>23 DEF MakeDir, TypeOK, Goto, scan, Steps, Editing, Scanning
<1>11. ASSUME NEW q \in Requests, Fill(q)
       PROVE  TypeOK'
  <2>1. file' \in [Lists -> (SUBSET Names) \union {None}]
    <3>1. file \in [Lists -> (SUBSET Names) \union {None}] /\ buf[q] \in SUBSET Names
      BY DEF TypeOK
    <3>2. CASE file[Target(q)] = None
      BY <1>11, <3>1, <3>2 DEF Fill
    <3>3. CASE file[Target(q)] # None
      <4>1. PICK tail \in SUBSET file[Target(q)] :
                file' = [file EXCEPT ![Target(q)] = buf[q] \union tail]
        BY <1>11, <3>3 DEF Fill
      <4>2. buf[q] \union tail \in SUBSET Names
        BY <3>1, <3>3
      <4>3. QED
        BY <3>1, <4>1, <4>2
    <3>4. QED
      BY <3>2, <3>3
  <2>2. QED
    BY <2>1, <1>8, <1>11 DEF Fill, TypeOK, Goto, scan, Steps, Editing, Scanning
<1>12. ASSUME NEW q \in Requests, OpenDir(q)
       PROVE  TypeOK'
  <2>1. UNION {Related(w) : w \in dirs} \in SUBSET Lists
    BY DEF TypeOK, Lists
  <2>2. QED
    BY <2>1, <1>12 DEF OpenDir, TypeOK, Goto, registry, history, Steps, Editing, Scanning
<1>13. ASSUME NEW q \in Requests, NEW l \in Lists, ReadList(q, l)
       PROVE  TypeOK'
  <2>1. ASSUME got' = [got EXCEPT ![q][l] = Content(l)]
        PROVE  got' \in [Requests -> [Lists -> SUBSET Names]]
    <3>1. got \in [Requests -> [Lists -> SUBSET Names]] /\ Content(l) \in SUBSET Names
      BY DEF TypeOK
    <3>2. QED
      BY <2>1, <3>1
  <2>3. got' \in [Requests -> [Lists -> SUBSET Names]]
    BY <2>1, <1>13 DEF TypeOK, ReadList
  <2>4. exposed' \subseteq Lists
    BY <1>13 DEF ReadList, TypeOK
  <2>5. QED
    BY <2>3, <2>4, <1>13 DEF ReadList, TypeOK, Goto, registry, Steps, Editing, Scanning
<1>14. ASSUME NEW q \in Requests, Scanned(q)
       PROVE  TypeOK'
  BY <1>14 DEF Scanned, TypeOK, Goto, registry, scan, history, Steps, Editing, Scanning
<1>15. ASSUME NEW q \in Requests, TruncateConf(q)
       PROVE  TypeOK'
  BY <1>15 DEF TruncateConf, TypeOK, Goto, registry, scan, Steps, Editing, Scanning
<1>16. ASSUME NEW q \in Requests, FillConf(q)
       PROVE  TypeOK'
  <2>1. conf' \in [Lists -> SUBSET Names]
    BY <1>16 DEF FillConf, TypeOK
  <2>2. QED
    BY <2>1, <1>16 DEF FillConf, TypeOK, Goto, registry, Steps, Editing, Scanning
<1>17. ASSUME NEW q \in Requests, SchedulePush(q)
       PROVE  TypeOK'
  BY <1>17 DEF SchedulePush, TypeOK, Goto, registry, scan, history, Steps, Editing, Scanning
<1>18. ASSUME NEW q \in Requests, Fails(q)
       PROVE  TypeOK'
  <2>1. exposed' \subseteq Lists /\ damaged' \subseteq Lists
    BY <1>18 DEF Fails, Left, TypeOK
  <2>2. QED
    BY <2>1, <1>18 DEF Fails, Reply, TypeOK, Goto, registry, scan, history, Steps, Results
<1>19. ASSUME NEW q \in Requests, ClientGone(q)
       PROVE  TypeOK'
  <2>1. exposed' \subseteq Lists
    BY <1>19 DEF ClientGone, Left, TypeOK
  <2>2. QED
    BY <2>1, <1>19 DEF ClientGone, Reply, TypeOK, Goto, registry, scan, history, Steps, Results
<1>20. ASSUME NEW q \in Requests, Retry(q)
       PROVE  TypeOK'
  BY <1>20, PermissionsAssumption DEF Retry, TypeOK, Goto, registry, scan, history, Steps
<1>21. CASE Publish
  BY <1>21 DEF Publish, TypeOK, registry, scan, history
<1>22. QED
  BY <1>5, <1>6, <1>7, <1>9, <1>10, <1>11, <1>12, <1>13, <1>14, <1>15, <1>16, <1>17, <1>18, <1>19,
     <1>20, <1>21, <1>23 DEF Next, Handler

-----------------------------------------------------------------------------
(* The conf *)

\* A step of q that leaves the lists alone, as the others see it.
Aside(q) ==
    /\ UNCHANGED <<setting, file, dirs>> /\ exposed \subseteq exposed'
    /\ pc'[q] # "truncate"
    /\ \A p \in Requests \ {q} : /\ pc'[p] = pc[p] /\ todo'[p] = todo[p]
                                 /\ got'[p] = got[p] /\ behind'[p] = behind[p]

LEMMA Others ==
    ASSUME ConfInv, NEW q \in Requests, Aside(q)
    PROVE  /\ Listed' /\ \A p \in Requests \ {q} : ReadSo(p)'
           /\ \A l \in Lists : Expected(l)' = Expected(l)
           /\ \A p \in Requests : Target(p)' = Target(p)
           /\ \A p \in Requests \ {q}, l \in Lists : Covers(p, l)' <=> Covers(p, l)
<1>1. Listed'
  BY DEF Aside, ConfInv, Listed, Target, Op
<1>2. \A l \in Lists : Expected(l)' = Expected(l)
  BY DEF Aside, Expected, Content
<1>3. ASSUME NEW p \in Requests \ {q}
      PROVE  ReadSo(p)'
  BY <1>2, <1>3 DEF Aside, ConfInv, ReadSo
<1>4. \A p \in Requests : Target(p)' = Target(p)
  BY DEF Aside, Target, Op
<1>5. ASSUME NEW p \in Requests \ {q}, NEW l \in Lists
      PROVE  Covers(p, l)' <=> Covers(p, l)
  BY <1>4 DEF Aside, Covers
<1>6. QED
  BY <1>1, <1>2, <1>3, <1>4, <1>5

\* When the conf stays too, q may not start to write it, must not leave rules to nobody, and
\* must have scheduled what it wrote.
LEMMA ConfAside ==
    ASSUME TypeOK', ConfInv, NEW q \in Requests, Aside(q), ReadSo(q)',
           UNCHANGED <<conf, published>>, dirty => dirty', pc'[q] = "fillConf" => pc[q] = "fillConf",
           \A l \in Lists \ exposed' : Covers(q, l) => Covers(q, l)' \/ conf[l] = Expected(l),
           \A l \in Lists \ exposed' :
               pc[q] \in {"fillConf", "schedule"} =>
                   pc'[q] \in {"fillConf", "schedule"} \/ dirty' \/ published[l] = conf[l]
    PROVE  ConfInv'
<1>1. /\ Listed' /\ \A p \in Requests \ {q} : ReadSo(p)'
      /\ \A l \in Lists : Expected(l)' = Expected(l)
      /\ \A p \in Requests \ {q}, l \in Lists : Covers(p, l)' <=> Covers(p, l)
  BY Others
<1>2. ASSUME NEW p \in Requests
      PROVE  WritesAlone(p)'
  <2>1. WritesAlone(p)
    BY DEF ConfInv
  <2>2. exposed = Lists => exposed' = Lists
    BY DEF Aside, TypeOK
  <2>3. CASE pc[p] = "fillConf" /\ conf = NoRules /\ \A r \in Requests \ {p} : pc[r] # "fillConf"
    BY <2>3 DEF WritesAlone, Aside
  <2>4. QED
    BY <2>1, <2>2, <2>3 DEF WritesAlone, Aside
<1>3. ASSUME NEW l \in Lists \ exposed'
      PROVE  conf'[l] = Expected(l)' \/ \E p \in Requests : Covers(p, l)'
  <2>1. conf[l] = Expected(l) \/ \E p \in Requests : Covers(p, l)
    BY <1>3 DEF ConfInv, Generated, Aside
  <2>2. CASE conf[l] = Expected(l)
    BY <2>2, <1>1
  <2>3. ASSUME NEW p \in Requests, Covers(p, l)
        PROVE  Covers(p, l)' \/ conf[l] = Expected(l)
    BY <2>3, <1>1, <1>3
  <2>4. QED
    BY <2>1, <2>2, <2>3, <1>1
<1>4. Generated'
  BY <1>3 DEF Generated
<1>5. ASSUME NEW l \in Lists \ exposed'
      PROVE  \/ published'[l] = conf'[l] \/ dirty'
             \/ \E p \in Requests : pc'[p] \in {"fillConf", "schedule"}
  <2>1. published[l] = conf[l] \/ dirty \/ \E p \in Requests : pc[p] \in {"fillConf", "schedule"}
    BY <1>5 DEF ConfInv, Scheduled, Aside
  <2>2. ASSUME NEW p \in Requests, pc[p] \in {"fillConf", "schedule"}
        PROVE  pc'[p] \in {"fillConf", "schedule"} \/ dirty' \/ published[l] = conf[l]
    BY <2>2, <1>5 DEF Aside
  <2>3. QED
    BY <2>1, <2>2
<1>6. Scheduled'
  BY <1>5 DEF Scheduled
<1>7. ReadSo(q)' /\ \A p \in Requests : ReadSo(p)' /\ WritesAlone(p)'
  BY <1>1, <1>2
<1>8. QED
  BY <1>1, <1>4, <1>6, <1>7 DEF ConfInv

\* A step of q that changes a list: whoever regenerates the conf falls behind, q regenerates it.
Changing(q) ==
    /\ UNCHANGED <<setting, conf, dirty, published, todo, got, exposed>>
    /\ pc[q] \notin {"fillConf", "schedule"} /\ pc'[q] \in {"truncate", "fill", "open"}
    /\ \A p \in Requests \ {q} : pc'[p] = pc[p]
    /\ dirs \subseteq dirs'
    /\ \A l \in Lists :
          \/ Expected(l)' = Expected(l)
          \/ /\ l \in Related(Target(q))
             /\ \A p \in Requests \ {q} : pc[p] \in Scanning => l \in behind'[p] \union todo[p]
    /\ \A p \in Requests \ {q} : behind[p] \subseteq behind'[p]
    /\ Listed'

LEMMA ConfChanging ==
    ASSUME TypeOK', ConfInv, NEW q \in Requests, Changing(q)
    PROVE  ConfInv'
<1>1. \A p \in Requests : Target(p)' = Target(p)
  BY DEF Changing, Target, Op
<1>2. ASSUME NEW p \in Requests
      PROVE  ReadSo(p)'
  <2>1. CASE p = q
    BY <2>1 DEF ReadSo, Changing, Scanning
  <2>2. CASE p # q /\ pc[p] \in Scanning
    <3>1. ReadSo(p)
      BY DEF ConfInv
    <3>2. ASSUME NEW l \in Lists \ (behind'[p] \union todo[p] \union exposed)
          PROVE  got[p][l] = Expected(l)'
      <4>1. got[p][l] = Expected(l)
        BY <2>2, <3>1 DEF ReadSo, Changing
      <4>2. Expected(l)' = Expected(l)
        BY <2>2 DEF Changing
      <4>3. QED
        BY <4>1, <4>2
    <3>3. (\A s \in Slots : s \in todo[p] => SlotOf[s] \in dirs') /\ (pc'[p] # "scan" => todo[p] = {})
      BY <2>2, <3>1 DEF ReadSo, Changing
    <3>4. QED
      BY <2>2, <3>2, <3>3 DEF ReadSo, Changing
  <2>3. CASE p # q /\ pc[p] \notin Scanning
    BY <2>3 DEF ReadSo, Changing
  <2>4. QED
    BY <2>1, <2>2, <2>3
<1>3. ASSUME NEW p \in Requests
      PROVE  WritesAlone(p)'
  <2>1. WritesAlone(p)
    BY DEF ConfInv
  <2>2. QED
    BY <2>1 DEF WritesAlone, Changing
<1>4. ASSUME NEW l \in Lists \ exposed'
      PROVE  conf'[l] = Expected(l)' \/ \E p \in Requests : Covers(p, l)'
  <2>1. CASE l \in Related(Target(q))
    <3>1. Covers(q, l)'
      BY <1>1, <2>1 DEF Covers, Changing
    <3>2. QED
      BY <3>1
  <2>2. CASE l \notin Related(Target(q))
    <3>1. Expected(l)' = Expected(l) /\ conf' = conf
      BY <2>2 DEF Changing
    <3>2. conf[l] = Expected(l) \/ \E p \in Requests : Covers(p, l)
      BY <1>4 DEF ConfInv, Generated, Changing
    <3>3. ASSUME NEW p \in Requests, Covers(p, l)
          PROVE  Covers(p, l)'
      <4>1. p # q
        BY <2>2, <3>3 DEF Covers, Changing
      <4>2. QED
        BY <4>1, <3>3, <1>1 DEF Covers, Changing
    <3>4. QED
      BY <3>1, <3>2, <3>3
  <2>3. QED
    BY <2>1, <2>2
<1>5. Generated'
  BY <1>4 DEF Generated
<1>6. Scheduled'
  <2>1. ASSUME NEW l \in Lists \ exposed'
        PROVE  \/ published'[l] = conf'[l] \/ dirty'
               \/ \E p \in Requests : pc'[p] \in {"fillConf", "schedule"}
    <3>1. published[l] = conf[l] \/ dirty \/ \E p \in Requests : pc[p] \in {"fillConf", "schedule"}
      BY <2>1 DEF ConfInv, Scheduled, Changing
    <3>2. ASSUME NEW p \in Requests, pc[p] \in {"fillConf", "schedule"}
          PROVE  pc'[p] \in {"fillConf", "schedule"}
      BY <3>2 DEF Changing
    <3>3. QED
      BY <3>1, <3>2 DEF Changing
  <2>2. QED
    BY <2>1 DEF Scheduled
<1>7. Listed'
  BY DEF Changing
<1>8. QED
  BY <1>2, <1>3, <1>5, <1>6, <1>7 DEF ConfInv

\* Making the directory, truncating, filling and deleting a list are such steps.
LEMMA ChangesAre ==
    ASSUME TypeOK, TypeOK', ConfInv, NEW q \in Requests, UNCHANGED setting,
           MakeDir(q) \/ Truncate(q) \/ Fill(q) \/ (DeleteSlot(q) /\ file[Target(q)] # None)
    PROVE  Changing(q)
<1> DEFINE affected == IF pc[q] # "makeDir" THEN {Target(q)}
                       ELSE IF Target(q) \in dirs THEN {} ELSE Related(Target(q))
<1>1. Target(q) \in Lists /\ SlotOf \in [Slots -> Workspaces] /\ Workspaces \intersect Slots = {}
  BY Params, PermissionsAssumption DEF TypeOK
<1>2. /\ UNCHANGED <<conf, dirty, published, todo, got, exposed>>
      /\ pc' = [pc EXCEPT ![q] = pc'[q]] /\ pc'[q] \in {"truncate", "fill", "open"}
      /\ pc[q] \in {"makeDir", "truncate", "fill", "new"}
      /\ Outdates(q, affected)
  BY DEF TypeOK, MakeDir, Truncate, Fill, DeleteSlot, NoChange, Goto, scan, Changes
<1>3. /\ pc[q] = "makeDir" => /\ dirs' = dirs \union ({Target(q)} \intersect Workspaces)
                              /\ file' = file /\ pc'[q] = "truncate"
      /\ pc[q] # "makeDir" => dirs' = dirs /\ pc'[q] # "truncate"
  BY <1>2 DEF TypeOK, MakeDir, Truncate, Fill, DeleteSlot, NoChange, Goto
<1>4. \A l \in Lists \ {Target(q)} : file'[l] = file[l]
  BY DEF TypeOK, MakeDir, Truncate, Fill, DeleteSlot, NoChange
<1>5. Target(q) \in dirs => dirs' = dirs
  BY <1>3
<1>6. Listed'
  <2>1. ASSUME NEW w \in Workspaces \ dirs'
        PROVE  file'[w] = None
    <3>1. file[w] = None
      BY <1>3 DEF ConfInv, Listed
    <3>2. w # Target(q) => file'[w] = None
      BY <3>1, <1>4 DEF Lists
    <3>3. ASSUME w = Target(q)
          PROVE  file'[w] = None
      <4>1. ~Truncate(q)
        BY <1>3, <3>3 DEF Truncate, Goto, ConfInv, Listed
      <4>2. ~DeleteSlot(q)
        <5>1. Op[q].kind \in {"add", "remove"}
          BY <3>3, Params DEF TypeOK, Target
        <5>2. QED
          BY <5>1 DEF DeleteSlot
      <4>3. QED
        BY <3>1, <3>3, <4>1, <4>2 DEF Fill, MakeDir
    <3>4. QED
      BY <3>2, <3>3
  <2>2. ASSUME NEW p \in Requests, pc'[p] = "truncate", Target(p)' \in Workspaces
        PROVE  Target(p)' \in dirs'
    <3>1. Target(p)' = Target(p)
      BY DEF Target, Op
    <3>2. QED
      BY <1>2, <1>3, <2>2, <3>1 DEF ConfInv, Listed, TypeOK
  <2>3. QED
    BY <2>1, <2>2 DEF Listed
<1>7. ASSUME NEW l \in Lists \ affected
      PROVE  Expected(l)' = Expected(l)
  <2>1. file'[l] = file[l]
    BY <1>3, <1>4
  <2>2. l \in Slots => (SlotOf[l] \in dirs' <=> SlotOf[l] \in dirs)
    BY <1>1, <1>3, <1>5 DEF Related
  <2>3. QED
    BY <2>1, <2>2 DEF Expected, Content
<1>8. affected \subseteq Related(Target(q))
  BY <1>1, Params DEF TypeOK
<1>9. ASSUME NEW p \in Requests \ {q}
      PROVE  /\ behind[p] \subseteq behind'[p]
             /\ pc[p] \in Scanning => affected \subseteq behind'[p] \union todo[p]
  BY <1>2 DEF Outdates
<1>10. QED
  <2>1. ASSUME NEW l \in Lists
        PROVE  \/ Expected(l)' = Expected(l)
               \/ /\ l \in Related(Target(q))
                  /\ \A p \in Requests \ {q} : pc[p] \in Scanning => l \in behind'[p] \union todo[p]
    <3>1. CASE l \in affected
      BY <3>1, <1>8, <1>9
    <3>2. CASE l \notin affected
      BY <3>2, <1>7
    <3>3. QED
      BY <3>1, <3>2
  <2>2. \A p \in Requests \ {q} : pc'[p] = pc[p]
    BY <1>2 DEF TypeOK
  <2>3. dirs \subseteq dirs'
    BY <1>3
  <2>4. QED
    BY <2>1, <2>2, <2>3, <1>2, <1>6, <1>9 DEF Changing

LEMMA ConfStep ==
    ASSUME TypeOK, TypeOK', ConfInv, [Next]_vars
    PROVE  ConfInv'
<1>1. CASE UNCHANGED vars
  BY <1>1
     DEF vars, ConfInv, Listed, ReadSo, WritesAlone, Generated, Scheduled, Covers, Expected, Content,
         Target, Op
<1>2. CASE Publish /\ UNCHANGED setting
  <2>1. UNCHANGED <<setting, file, dirs, conf, pc, todo, got, behind, exposed>> /\ published' = conf'
    BY <1>2 DEF Publish, registry, scan, history
  <2>2. Listed' /\ (\A q \in Requests : ReadSo(q)' /\ WritesAlone(q)')
    BY <2>1 DEF ConfInv, Listed, ReadSo, WritesAlone, Expected, Content, Target, Op
  <2>3. Generated'
    BY <2>1 DEF ConfInv, Generated, Covers, Expected, Content, Target, Op
  <2>4. Scheduled'
    BY <2>1 DEF Scheduled
  <2>5. QED
    BY <2>2, <2>3, <2>4 DEF ConfInv
<1>3. ASSUME NEW q \in Requests, Handler(q) \/ Retry(q), UNCHANGED setting
      PROVE  ConfInv'
  <2>1. CASE MakeDir(q) \/ Truncate(q) \/ Fill(q) \/ (DeleteSlot(q) /\ file[Target(q)] # None)
    BY <1>3, <2>1, ChangesAre, ConfChanging
  <2>2. ASSUME NEW content, Edit(q, content)
        PROVE  ConfInv'
    <3>1. Aside(q) /\ pc[q] = "new" /\ pc'[q] = "makeDir" /\ UNCHANGED <<conf, published, dirty>>
      BY <1>3, <2>2 DEF Edit, Aside, Goto, registry, scan, history, TypeOK
    <3>2. ReadSo(q)' /\ \A l \in Lists : ~Covers(q, l)
      BY <3>1 DEF ReadSo, Covers, Scanning
    <3>3. QED
      BY <3>1, <3>2, ConfAside
  <2>3. ASSUME NEW r, NoChange(q, r)
        PROVE  ConfInv'
    <3>1. Aside(q) /\ pc[q] = "new" /\ pc'[q] = "done" /\ UNCHANGED <<conf, published, dirty>>
      BY <1>3, <2>3 DEF NoChange, Aside, Goto, registry, scan, history, TypeOK
    <3>2. ReadSo(q)' /\ \A l \in Lists : ~Covers(q, l)
      BY <3>1 DEF ReadSo, Covers, Scanning
    <3>3. QED
      BY <3>1, <3>2, ConfAside
  <2>4. CASE AddMember(q)
    <3>1. CASE Op[q].name \in Content(Target(q))
      <4>1. Aside(q) /\ pc[q] = "new" /\ pc'[q] = "open" /\ UNCHANGED <<conf, published, dirty>>
        BY <1>3, <2>4, <3>1 DEF AddMember, Aside, Goto, registry, scan, history, TypeOK
      <4>2. ReadSo(q)' /\ \A l \in Lists : ~Covers(q, l)
        BY <4>1 DEF ReadSo, Covers, Scanning
      <4>3. QED
        BY <4>1, <4>2, ConfAside
    <3>2. QED
      BY <2>2, <2>4, <3>1 DEF AddMember
  <2>5. CASE RemoveMember(q) \/ AddPairMember(q) \/ (DeleteSlot(q) /\ file[Target(q)] = None)
    BY <2>2, <2>3, <2>5 DEF RemoveMember, AddPairMember, DeleteSlot
  <2>6. CASE OpenDir(q)
    <3>1. Aside(q) /\ pc[q] = "open" /\ pc'[q] = "scan" /\ UNCHANGED <<conf, published, dirty>>
      BY <1>3, <2>6 DEF OpenDir, Aside, Goto, registry, history, TypeOK
    <3>2. todo'[q] = UNION {Related(w) : w \in dirs} /\ got'[q] = NoRules
      BY <2>6 DEF OpenDir, TypeOK
    <3>3. dirs \subseteq Workspaces /\ \A s \in Slots : SlotOf[s] \in Workspaces /\ s \notin Workspaces
      BY Params DEF TypeOK
    <3>4. \A s \in Slots : s \in todo'[q] <=> SlotOf[s] \in dirs
      BY <3>2, <3>3 DEF Related
    <3>5. ASSUME NEW l \in Lists, l \notin todo'[q]
          PROVE  Expected(l) = {}
      <4>1. CASE l \in Slots
        BY <4>1, <3>4, <3>5 DEF Expected
      <4>2. CASE l \in Workspaces
        <5>1. l \notin dirs
          BY <3>2, <3>5 DEF Related
        <5>2. file[l] = None
          BY <4>2, <5>1 DEF ConfInv, Listed
        <5>3. QED
          BY <4>2, <5>2, <3>3 DEF Expected, Content
      <4>3. QED
        BY <4>1, <4>2 DEF Lists
    <3>6. \A l \in Lists : Expected(l)' = Expected(l)
      BY <3>1, <1>3, Others
    <3>7. ReadSo(q)'
      BY <3>1, <3>2, <3>4, <3>5, <3>6 DEF ReadSo, NoRules, Aside
    <3>8. \A l \in Lists : Covers(q, l) => Covers(q, l)'
      BY <3>1 DEF Covers, Aside, Target, Op
    <3>9. QED
      BY <3>1, <3>7, <3>8, ConfAside
  <2>7. ASSUME NEW l \in Lists, ReadList(q, l)
        PROVE  ConfInv'
    <3>1. Aside(q) /\ pc[q] = "scan" /\ pc'[q] = "scan" /\ UNCHANGED <<conf, published, dirty>>
          /\ behind' = behind /\ todo'[q] = todo[q] \ {l}
      BY <1>3, <2>7 DEF ReadList, Aside, Goto, registry, TypeOK
    <3>2. ReadSo(q)
      BY DEF ConfInv
    <3>3. \A m \in Lists : Expected(m)' = Expected(m)
      BY <3>1, <1>3, Others
    <3>4. l \notin exposed' => got'[q][l] = Content(l)
      BY <2>7 DEF ReadList, TypeOK
    <3>5. \A m \in Lists \ {l} : got'[q][m] = got[q][m]
      BY <2>7 DEF ReadList, TypeOK
    <3>6. Expected(l) = Content(l)
      BY <2>7, <3>1, <3>2 DEF ReadList, ReadSo, Scanning, Expected
    <3>7. ASSUME NEW m \in Lists \ (behind'[q] \union todo'[q] \union exposed')
          PROVE  got'[q][m] = Expected(m)
      <4>1. CASE m = l
        BY <4>1, <3>4, <3>6, <3>7
      <4>2. CASE m # l
        BY <4>2, <3>1, <3>2, <3>5, <3>7 DEF ReadSo, Scanning, Aside
      <4>3. QED
        BY <4>1, <4>2
    <3>8. ReadSo(q)'
      BY <3>1, <3>2, <3>3, <3>7 DEF ReadSo, Aside, Scanning
    <3>9. \A m \in Lists : Covers(q, m) => Covers(q, m)'
      BY <3>1 DEF Covers, Aside, Target, Op
    <3>10. QED
      BY <3>1, <3>8, <3>9, ConfAside
  <2>8. CASE Scanned(q)
    <3>1. Aside(q) /\ pc[q] = "scan" /\ pc'[q] = "truncateConf" /\ UNCHANGED <<conf, published, dirty>>
          /\ UNCHANGED <<behind, todo, got, exposed>> /\ todo[q] = {}
      BY <1>3, <2>8 DEF Scanned, Aside, Goto, registry, scan, history, TypeOK
    <3>2. ReadSo(q)
      BY DEF ConfInv
    <3>3. \A m \in Lists : Expected(m)' = Expected(m)
      BY <3>1, <1>3, Others
    <3>4. ReadSo(q)'
      BY <3>1, <3>2, <3>3 DEF ReadSo, Aside, Scanning
    <3>5. \A m \in Lists : Covers(q, m) => Covers(q, m)'
      BY <3>1 DEF Covers, Aside, Target, Op
    <3>6. QED
      BY <3>1, <3>4, <3>5, ConfAside
  <2>9. CASE TruncateConf(q)
    <3>1. Aside(q) /\ pc[q] = "truncateConf" /\ pc'[q] = "fillConf" /\ conf' = NoRules
          /\ UNCHANGED <<behind, todo, got>>
          /\ (exposed' = Lists \/ \A p \in Requests \ {q} : pc[p] # "fillConf")
      BY <1>3, <2>9 DEF TruncateConf, ConfShared, Aside, Goto, registry, scan, TypeOK
    <3>2. ReadSo(q)
      BY DEF ConfInv
    <3>3. Listed' /\ (\A p \in Requests \ {q} : ReadSo(p)') /\ \A m \in Lists : Expected(m)' = Expected(m)
      BY <3>1, <1>3, Others
    <3>4. ReadSo(q)'
      BY <3>1, <3>2, <3>3 DEF ReadSo, Aside, Scanning
    <3>5. Generated' /\ Scheduled'
      BY <3>1 DEF Generated, Scheduled, Covers
    <3>6. \A p \in Requests : WritesAlone(p)'
      BY <3>1 DEF WritesAlone, Aside
    <3>7. QED
      BY <3>3, <3>4, <3>5, <3>6 DEF ConfInv
  <2>10. CASE FillConf(q)
    <3>1. Aside(q) /\ pc[q] = "fillConf" /\ pc'[q] = "schedule" /\ exposed' = exposed \union behind[q]
      BY <1>3, <2>10 DEF FillConf, Aside, Goto, registry, TypeOK
    <3>2. Listed' /\ (\A p \in Requests \ {q} : ReadSo(p)') /\ \A m \in Lists : Expected(m)' = Expected(m)
      BY <3>1, <1>3, Others
    <3>3. ReadSo(q)'
      BY <3>1 DEF ReadSo, Scanning
    <3>4. Scheduled'
      BY <3>1 DEF Scheduled
    <3>5. CASE exposed = Lists
      <4>1. exposed' = Lists
        BY <3>1, <3>5 DEF TypeOK
      <4>2. Generated' /\ \A p \in Requests : WritesAlone(p)'
        BY <4>1 DEF Generated, WritesAlone
      <4>3. QED
        BY <3>2, <3>3, <3>4, <4>2 DEF ConfInv
    <3>6. CASE exposed # Lists
      <4>1. conf = NoRules /\ \A p \in Requests \ {q} : pc[p] # "fillConf"
        BY <3>1, <3>6 DEF ConfInv, WritesAlone
      <4>2. \A p \in Requests : WritesAlone(p)'
        BY <3>1, <4>1 DEF WritesAlone, Aside
      <4>3. \A l \in Lists : conf'[l] = got[q][l]
        BY <2>10, <4>1 DEF FillConf, NoRules
      <4>4. \A l \in Lists \ (behind[q] \union exposed) : got[q][l] = Expected(l)
        BY <3>1 DEF ConfInv, ReadSo, Scanning
      <4>5. Generated'
        BY <3>1, <3>2, <4>3, <4>4 DEF Generated
      <4>6. QED
        BY <3>2, <3>3, <3>4, <4>2, <4>5 DEF ConfInv
    <3>7. QED
      BY <3>5, <3>6
  <2>11. CASE SchedulePush(q)
    <3>1. Aside(q) /\ pc[q] = "schedule" /\ pc'[q] = "done" /\ UNCHANGED <<conf, published>> /\ dirty'
      BY <1>3, <2>11 DEF SchedulePush, Aside, Goto, registry, scan, history, TypeOK
    <3>2. ReadSo(q)' /\ \A l \in Lists : ~Covers(q, l)
      BY <3>1 DEF ReadSo, Covers, Scanning
    <3>3. QED
      BY <3>1, <3>2, ConfAside
  <2>12. CASE Fails(q)
    <3>1. Aside(q) /\ pc[q] # "schedule" /\ pc'[q] = "failed" /\ UNCHANGED <<conf, published, dirty>>
      BY <1>3, <2>12 DEF Fails, Aside, registry, TypeOK, Scanning, Editing
    <3>2. exposed' = exposed \union (IF pc[q] = "fillConf" THEN Lists ELSE Left(q))
      BY <2>12 DEF Fails
    <3>3. ReadSo(q)'
      BY <3>1 DEF ReadSo, Scanning
    <3>4. \A l \in Lists \ exposed' :
              (Covers(q, l) => conf[l] = Expected(l)) /\ pc[q] # "fillConf"
      BY <3>1, <3>2 DEF Covers, Left
    <3>5. QED
      BY <3>1, <3>3, <3>4, ConfAside
  <2>13. CASE ClientGone(q)
    <3>1. Aside(q) /\ pc[q] # "fillConf" /\ pc'[q] = "failed" /\ UNCHANGED <<conf, published, dirty>>
      BY <1>3, <2>13 DEF ClientGone, Aside, registry, TypeOK
    <3>2. exposed' = exposed \union (IF pc[q] = "schedule" THEN {l \in Lists : conf[l] # published[l]}
                                     ELSE Left(q))
      BY <2>13 DEF ClientGone
    <3>3. ReadSo(q)'
      BY <3>1 DEF ReadSo, Scanning
    <3>4. \A l \in Lists \ exposed' :
              /\ Covers(q, l) => conf[l] = Expected(l)
              /\ pc[q] = "schedule" => published[l] = conf[l]
      BY <3>1, <3>2 DEF Covers, Left
    <3>5. QED
      BY <3>1, <3>3, <3>4, ConfAside
  <2>14. CASE Retry(q)
    <3>1. Aside(q) /\ pc[q] = "failed" /\ pc'[q] = "new" /\ UNCHANGED <<conf, published, dirty>>
      BY <1>3, <2>14 DEF Retry, Aside, Goto, registry, scan, history, TypeOK
    <3>2. ReadSo(q)' /\ \A l \in Lists : ~Covers(q, l)
      BY <3>1 DEF ReadSo, Covers, Scanning
    <3>3. QED
      BY <3>1, <3>2, ConfAside
  <2>15. QED
    BY <1>3, <2>1, <2>4, <2>5, <2>6, <2>7, <2>8, <2>9, <2>10, <2>11, <2>12, <2>13, <2>14 DEF Handler
<1>4. QED
  BY <1>1, <1>2, <1>3 DEF Next

-----------------------------------------------------------------------------
(* The lists *)

\* A step of m as the lists and the other requests see it.
Alone(m) ==
    /\ UNCHANGED setting /\ damaged \subseteq damaged'
    /\ \A p \in Requests \ {m} : pc'[p] = pc[p] /\ buf'[p] = buf[p] /\ result'[p] = result[p]
    /\ result'[m] = "none" => result[m] = "none"

LEMMA Constantly ==
    ASSUME UNCHANGED setting
    PROVE  /\ Op' = Op
           /\ \A p \in Requests : Target(p)' = Target(p) /\ Removals(p)' = Removals(p)
BY DEF Op, Target, Removals

\* A member that is kept after a step of somebody else was kept before it.
LEMMA KeptBefore ==
    ASSUME NEW m \in Requests, Alone(m), NEW q \in Requests, Kept(q)',
           q # m \/ (result[m] = "changed" /\ pc[m] \notin Editing)
    PROVE  Kept(q)
<1>1. Op' = Op /\ Target(q)' = Target(q) /\ Removals(q)' = Removals(q)
  BY Constantly DEF Alone
<1>2. \A p \in Removals(q) : p \in Requests /\ result[p] = "none"
  BY <1>1 DEF Alone, Kept, Removals
<1>3. QED
  BY <1>1, <1>2 DEF Alone, Kept

\* A step that leaves the lists alone, and starts no write.
LEMMA KeepsAside ==
    ASSUME KeepsInv, NEW m \in Requests, Alone(m), UNCHANGED file, pc'[m] \notin Editing,
           pc[m] = "fill" => Target(m) \in damaged',
           result'[m] = "changed" => result[m] = "changed" /\ pc[m] \notin Editing
    PROVE  KeepsInv'
<1>1. Op' = Op /\ \A p \in Requests : Target(p)' = Target(p) /\ Removals(p)' = Removals(p)
  BY Constantly DEF Alone
<1>2. EditsSo'
  BY <1>1 DEF KeepsInv, EditsSo, Alone, Editing
<1>3. ASSUME NEW q \in Requests, Kept(q)'
      PROVE  KeptSo(q)'
  <2>1. result'[q] = "changed"
    BY <1>3 DEF Kept
  <2>2. KeptSo(q)
    BY <1>3, <2>1, KeptBefore DEF KeepsInv
  <2>3. Target(q) \notin damaged'
    BY <1>1, <1>3 DEF Kept
  <2>4. \A p \in Requests : p \in Filling(Target(q)) => p \in Filling(Target(q))'
    BY <1>1, <2>3 DEF Filling, Alone
  <2>5. Filling(Target(q)) # {} => Filling(Target(q))' # {}
    BY <2>4 DEF Filling
  <2>6. Content(Target(q))' = Content(Target(q))
    BY <1>1 DEF Content
  <2>7. ASSUME NEW p \in Requests, Target(p)' = Target(q)'
        PROVE  /\ pc'[p] \in {"makeDir", "truncate"} =>
                      Op'[q].name \in buf'[p] \/ Filling(Target(q))' # {}
               /\ pc'[p] = "fill" => Op'[q].name \in buf'[p]
    BY <1>1, <2>2, <2>5, <2>7 DEF KeptSo, Alone, Editing
  <2>8. Op'[q].name \in Content(Target(q))' \/ Filling(Target(q))' # {}
    BY <1>1, <2>2, <2>5, <2>6 DEF KeptSo
  <2>9. QED
    BY <2>7, <2>8 DEF KeptSo
<1>4. QED
  BY <1>2, <1>3 DEF KeepsInv

\* A request that was kept has a list and a name that the step of m leaves it, unless m is
\* the one that edits that list.
LEMMA KeepsElsewhere ==
    ASSUME NEW m \in Requests, Alone(m), NEW q \in Requests, KeptSo(q), Target(m) # Target(q),
           \A l \in Lists \ {Target(m)} : file'[l] = file[l], Target(q) \in Lists
    PROVE  KeptSo(q)'
<1>1. Op' = Op /\ \A p \in Requests : Target(p)' = Target(p)
  BY Constantly DEF Alone
<1>2. Filling(Target(q))' = Filling(Target(q))
  BY <1>1 DEF Filling, Alone
<1>3. Content(Target(q))' = Content(Target(q))
  BY <1>1 DEF Content
<1>4. QED
  BY <1>1, <1>2, <1>3 DEF KeptSo, Alone

LEMMA KeepsEdit ==
    ASSUME TypeOK, KeepsInv, UNCHANGED setting, NEW m \in Requests, NEW content, Edit(m, content),
           Op[m].kind \in {"add", "pairAdd"} => content = Content(Target(m)) \union {Op[m].name},
           \/ Op[m].kind \in {"remove", "pairRemove"} /\ content = Content(Target(m)) \ {Op[m].name}
           \/ Op[m].kind \in {"add", "pairAdd"}
    PROVE  KeepsInv'
<1>1. Op' = Op /\ \A p \in Requests : Target(p)' = Target(p) /\ Removals(p)' = Removals(p)
  BY Constantly
<1>2. /\ pc[m] = "new" /\ pc'[m] = "makeDir" /\ buf'[m] = content /\ result'[m] = "changed"
      /\ UNCHANGED <<file, damaged>>
      /\ \A p \in Requests \ {m} : pc'[p] = pc[p] /\ buf'[p] = buf[p] /\ result'[p] = result[p]
  BY DEF Edit, Goto, Reply, registry, history, TypeOK
<1>3. Alone(m)
  BY <1>2 DEF Alone
<1>4. EditsSo'
  BY <1>1, <1>2 DEF KeepsInv, EditsSo, Editing
<1>5. ASSUME NEW q \in Requests, Kept(q)'
      PROVE  KeptSo(q)'
  <2>1. q # m
    BY <1>2, <1>5 DEF Kept, Editing
  <2>2. KeptSo(q)
    BY <1>3, <1>5, <2>1, KeptBefore DEF KeepsInv
  <2>3. Filling(Target(q))' = Filling(Target(q)) /\ Content(Target(q))' = Content(Target(q))
    BY <1>1, <1>2 DEF Filling, Content
  <2>4. m \notin Removals(q)
    BY <1>1, <1>2, <1>5 DEF Kept
  <2>5. ASSUME Target(m) = Target(q), Filling(Target(q)) = {}
        PROVE  Op[q].name \in buf'[m]
    <3>1. Op[q].name \in Content(Target(m))
      BY <2>2, <2>5 DEF KeptSo
    <3>2. Op[m].kind \in {"remove", "pairRemove"} => Op[m].name # Op[q].name
      BY <2>4, <2>5 DEF Removals, Target
    <3>3. QED
      BY <1>2, <3>1, <3>2
  <2>6. ASSUME NEW p \in Requests, Target(p) = Target(q)
        PROVE  /\ pc'[p] \in {"makeDir", "truncate"} =>
                      Op[q].name \in buf'[p] \/ Filling(Target(q)) # {}
               /\ pc'[p] = "fill" => Op[q].name \in buf'[p]
    <3>1. CASE p = m
      BY <1>2, <2>5, <2>6, <3>1
    <3>2. CASE p # m
      BY <1>2, <2>2, <2>6, <3>2 DEF KeptSo
    <3>3. QED
      BY <3>1, <3>2
  <2>7. QED
    BY <1>1, <2>2, <2>3, <2>6 DEF KeptSo
<1>6. QED
  BY <1>4, <1>5 DEF KeepsInv

\* Truncating, filling and deleting a list damage it when somebody else is writing it.
LEMMA KeepsChange ==
    ASSUME TypeOK, TypeOK', KeepsInv, UNCHANGED setting, NEW m \in Requests,
           Truncate(m) \/ Fill(m) \/ (DeleteSlot(m) /\ file[Target(m)] # None)
    PROVE  KeepsInv'
<1>1. Op' = Op /\ \A p \in Requests : Target(p)' = Target(p) /\ Removals(p)' = Removals(p)
  BY Constantly
<1>2. \A p \in Requests : Target(p) \in Lists /\ Op[p].name \in Names
  BY Params DEF TypeOK
<1>3. /\ \A p \in Requests \ {m} : pc'[p] = pc[p] /\ buf'[p] = buf[p] /\ result'[p] = result[p]
      /\ damaged \subseteq damaged'
      /\ Target(m) \in damaged' \/ \A p \in Requests \ {m} : pc[p] \in Editing => Target(p) # Target(m)
      /\ \A l \in Lists \ {Target(m)} : file'[l] = file[l]
  BY <1>2 DEF Truncate, Fill, DeleteSlot, NoChange, Goto, Reply, Changes, TypeOK
<1>4. /\ Truncate(m) => /\ pc[m] = "truncate" /\ pc'[m] = "fill" /\ file'[Target(m)] = {}
                        /\ buf'[m] = buf[m] /\ result'[m] = result[m]
      /\ Fill(m) => /\ pc[m] = "fill" /\ pc'[m] = "open" /\ result'[m] = result[m]
                    /\ \/ file[Target(m)] = None
                       \/ /\ file[Target(m)] # None
                          /\ \E tail \in SUBSET file[Target(m)] : file'[Target(m)] = buf[m] \union tail
  BY <1>2 DEF Truncate, Fill, Goto, TypeOK
<1>5. DeleteSlot(m) /\ file[Target(m)] # None =>
          /\ pc'[m] = "open" /\ result'[m] = "changed" /\ Op[m].kind = "pairDelete" /\ pc[m] = "new"
  BY <1>2 DEF DeleteSlot, NoChange, Goto, Reply, TypeOK
<1>6. Alone(m)
  BY <1>3, <1>4, <1>5 DEF Alone
<1>7. EditsSo'
  <2>1. ASSUME NEW p \in Requests, pc'[p] = "fill"
        PROVE  file'[Target(p)] # None \/ Target(p) \in damaged'
    <3>1. CASE p = m
      <4>1. Truncate(m)
        BY <1>4, <1>5, <2>1, <3>1
      <4>2. file'[Target(m)] = {} /\ {} \in SUBSET Names
        BY <1>4, <4>1
      <4>3. QED
        BY <3>1, <4>2, PermissionsAssumption
    <3>2. CASE p # m /\ Target(p) # Target(m)
      BY <1>2, <1>3, <2>1, <3>2 DEF KeepsInv, EditsSo
    <3>3. CASE p # m /\ Target(p) = Target(m)
      BY <1>3, <2>1, <3>3 DEF Editing
    <3>4. QED
      BY <3>1, <3>2, <3>3
  <2>2. ASSUME NEW p \in Requests, pc'[p] \in Editing, Op[p].kind \in {"add", "pairAdd"}
        PROVE  Op[p].name \in buf'[p]
    <3>1. CASE p = m
      BY <1>4, <1>5, <2>2, <3>1 DEF KeepsInv, EditsSo, Editing
    <3>2. CASE p # m
      BY <1>3, <2>2, <3>2 DEF KeepsInv, EditsSo
    <3>3. QED
      BY <3>1, <3>2
  <2>3. QED
    BY <1>1, <2>1, <2>2 DEF EditsSo
<1>8. ASSUME NEW q \in Requests, Kept(q)'
      PROVE  KeptSo(q)'
  <2>1. Target(q) \notin damaged' /\ result'[q] = "changed" /\ Op[q].kind \in {"add", "pairAdd"}
    BY <1>1, <1>8 DEF Kept
  <2>2. ASSUME q # m
        PROVE  KeptSo(q)
    BY <1>6, <1>8, <2>2, KeptBefore DEF KeepsInv
  <2>3. CASE Target(m) # Target(q)
    <3>1. KeptSo(q)
      BY <2>2, <2>3
    <3>2. QED
      BY <1>2, <1>3, <1>6, <2>3, <3>1, KeepsElsewhere
  <2>4. CASE Target(m) = Target(q)
    <3>1. \A p \in Requests \ {m} : Target(p) = Target(q) => pc[p] \notin Editing /\ pc'[p] \notin Editing
      BY <1>3, <2>1, <2>4
    <3>2. CASE Truncate(m)
      <4>1. q # m
        BY <1>1, <1>4, <1>8, <3>2 DEF Kept, Editing
      <4>2. Filling(Target(q)) = {}
        BY <1>4, <3>1, <3>2 DEF Filling, Editing
      <4>3. Op[q].name \in buf[m]
        BY <1>4, <2>2, <2>4, <3>2, <4>1, <4>2 DEF KeptSo
      <4>4. m \in Filling(Target(q))'
        BY <1>1, <1>4, <2>4, <3>2 DEF Filling
      <4>5. Filling(Target(q))' # {}
        BY <4>4 DEF Filling
      <4>6. ASSUME NEW p \in Requests, Target(p) = Target(q)
            PROVE  /\ pc'[p] \notin {"makeDir", "truncate"}
                   /\ pc'[p] = "fill" => Op[q].name \in buf'[p]
        BY <1>4, <3>1, <3>2, <4>3, <4>6 DEF Editing
      <4>7. QED
        BY <1>1, <4>5, <4>6 DEF KeptSo
    <3>3. CASE Fill(m)
      <4>1. Op[q].name \in buf[m]
        <5>1. CASE q = m
          BY <1>4, <2>1, <3>3, <5>1 DEF KeepsInv, EditsSo, Editing
        <5>2. CASE q # m
          BY <1>4, <2>2, <2>4, <3>3, <5>2 DEF KeptSo
        <5>3. QED
          BY <5>1, <5>2
      <4>2. file[Target(m)] # None
        BY <1>3, <1>4, <2>1, <2>4, <3>3 DEF KeepsInv, EditsSo
      <4>3. PICK tail \in SUBSET file[Target(m)] : file'[Target(m)] = buf[m] \union tail
        BY <1>4, <3>3, <4>2
      <4>4. file'[Target(q)] # None /\ Op[q].name \in file'[Target(q)]
        <5>1. file'[Target(q)] \in SUBSET Names \/ file'[Target(q)] = None
          BY <1>2 DEF TypeOK
        <5>2. file[Target(q)] \in SUBSET Names
          BY <1>2, <2>4, <4>2 DEF TypeOK
        <5>3. buf[m] \union tail \in SUBSET Names
          BY <5>2, <2>4 DEF TypeOK
        <5>4. QED
          BY <2>4, <4>1, <4>3, <5>3, PermissionsAssumption
      <4>5. Op[q].name \in Content(Target(q))'
        BY <1>1, <4>4 DEF Content
      <4>6. \A p \in Requests : Target(p) = Target(q) => pc'[p] \notin Editing
        BY <1>4, <3>1, <3>3 DEF Editing
      <4>7. QED
        BY <1>1, <4>5, <4>6 DEF KeptSo, Editing
    <3>4. CASE DeleteSlot(m) /\ file[Target(m)] # None
      <4>1. m \in Removals(q)
        BY <1>5, <2>4, <3>4 DEF Removals, Target
      <4>2. QED
        BY <1>1, <1>5, <1>8, <3>4, <4>1 DEF Kept
    <3>5. QED
      BY <3>2, <3>3, <3>4
  <2>5. QED
    BY <2>3, <2>4
<1>9. QED
  BY <1>7, <1>8 DEF KeepsInv

LEMMA KeepsStep ==
    ASSUME TypeOK, TypeOK', KeepsInv, [Next]_vars
    PROVE  KeepsInv'
<1>1. CASE UNCHANGED <<setting, file, pc, buf, result, damaged>>
  <2>1. Op' = Op /\ \A p \in Requests : Target(p)' = Target(p) /\ Removals(p)' = Removals(p)
    BY <1>1, Constantly
  <2>2. \A q \in Requests : /\ Filling(Target(q))' = Filling(Target(q))
                             /\ Content(Target(q))' = Content(Target(q))
    BY <1>1, <2>1 DEF Filling, Content
  <2>3. EditsSo'
    BY <1>1, <2>1 DEF KeepsInv, EditsSo
  <2>4. ASSUME NEW q \in Requests, Kept(q)'
        PROVE  KeptSo(q)'
    <3>1. KeptSo(q)
      BY <1>1, <2>1, <2>4 DEF KeepsInv, Kept
    <3>2. QED
      BY <1>1, <2>1, <2>2, <3>1 DEF KeptSo
  <2>5. QED
    BY <2>3, <2>4 DEF KeepsInv
<1>2. ASSUME NEW m \in Requests, Handler(m) \/ Retry(m), UNCHANGED setting
      PROVE  KeepsInv'
  <2>1. CASE Truncate(m) \/ Fill(m) \/ (DeleteSlot(m) /\ file[Target(m)] # None)
    BY <1>2, <2>1, KeepsChange
  <2>2. ASSUME NEW r \in Results \ {"none", "changed"}, NoChange(m, r)
        PROVE  KeepsInv'
    <3>1. /\ Alone(m) /\ UNCHANGED file /\ pc[m] = "new" /\ pc'[m] = "done"
          /\ result'[m] # "changed"
      BY <1>2, <2>2 DEF NoChange, Alone, Goto, Reply, registry, history, TypeOK
    <3>2. QED
      BY <3>1, KeepsAside DEF Editing
  <2>3. CASE AddMember(m)
    <3>1. CASE Op[m].name \in Content(Target(m))
      <4>1. /\ Alone(m) /\ UNCHANGED file /\ pc[m] = "new" /\ pc'[m] = "open"
            /\ result'[m] # "changed"
        BY <1>2, <2>3, <3>1 DEF AddMember, Alone, Goto, Reply, registry, history, TypeOK
      <4>2. QED
        BY <4>1, KeepsAside DEF Editing
    <3>2. CASE Op[m].name \notin Content(Target(m))
      BY <1>2, <2>3, <3>2, KeepsEdit DEF AddMember
    <3>3. QED
      BY <3>1, <3>2
  <2>4. CASE RemoveMember(m)
    <3>1. CASE Op[m].name \in Content(Target(m))
      <4>1. Edit(m, Content(Target(m)) \ {Op[m].name}) /\ Op[m].kind \in {"remove", "pairRemove"}
        BY <2>4, <3>1 DEF RemoveMember
      <4>2. QED
        BY <1>2, <4>1, KeepsEdit
    <3>2. QED
      BY <2>2, <2>4, <3>1 DEF RemoveMember, Results
  <2>5. CASE AddPairMember(m)
    <3>1. CASE Op[m].name \notin Content(Target(m))
      <4>1. Edit(m, Content(Target(m)) \union {Op[m].name}) /\ Op[m].kind = "pairAdd"
        BY <2>5, <3>1 DEF AddPairMember
      <4>2. QED
        BY <1>2, <4>1, KeepsEdit
    <3>2. QED
      BY <2>2, <2>5, <3>1 DEF AddPairMember, Results
  <2>6. CASE DeleteSlot(m) /\ file[Target(m)] = None
    BY <2>2, <2>6 DEF DeleteSlot, Results
  <2>7. CASE \/ OpenDir(m) \/ (\E l \in Lists : ReadList(m, l)) \/ Scanned(m) \/ TruncateConf(m)
             \/ FillConf(m) \/ SchedulePush(m) \/ Retry(m)
    <3>1. /\ Alone(m) /\ UNCHANGED file /\ pc[m] \notin Editing /\ pc'[m] \notin Editing
          /\ result'[m] = result[m]
      BY <1>2, <2>7
         DEF OpenDir, ReadList, Scanned, TruncateConf, FillConf, SchedulePush, Retry,
             Alone, Goto, registry, history, TypeOK, Editing
    <3>2. QED
      BY <3>1, KeepsAside DEF Editing
  <2>8. CASE Fails(m) \/ ClientGone(m)
    <3>1. /\ Alone(m) /\ UNCHANGED file /\ pc'[m] = "failed" /\ result'[m] = "error"
          /\ pc[m] = "fill" => Target(m) \in damaged'
      BY <1>2, <2>8 DEF Fails, ClientGone, Alone, Reply, registry, TypeOK
    <3>2. QED
      BY <3>1, KeepsAside DEF Editing
  <2>9. CASE MakeDir(m)
    <3>1. /\ UNCHANGED <<setting, file, buf, result, damaged>>
          /\ pc[m] = "makeDir" /\ pc'[m] = "truncate" /\ \A p \in Requests \ {m} : pc'[p] = pc[p]
      BY <1>2, <2>9 DEF MakeDir, Goto, scan, TypeOK
    <3>2. Op' = Op /\ \A p \in Requests : Target(p)' = Target(p) /\ Removals(p)' = Removals(p)
      BY <3>1, Constantly
    <3>3. \A q \in Requests : /\ Filling(Target(q))' = Filling(Target(q))
                               /\ Content(Target(q))' = Content(Target(q))
      BY <3>1, <3>2 DEF Filling, Content
    <3>4. EditsSo'
      BY <3>1, <3>2 DEF KeepsInv, EditsSo, Editing
    <3>5. ASSUME NEW q \in Requests, Kept(q)'
          PROVE  KeptSo(q)'
      <4>1. KeptSo(q)
        BY <3>1, <3>2, <3>5 DEF KeepsInv, Kept, Editing
      <4>2. QED
        BY <3>1, <3>2, <3>3, <4>1 DEF KeptSo
    <3>6. QED
      BY <3>4, <3>5 DEF KeepsInv
  <2>10. QED
    BY <1>2, <2>1, <2>3, <2>4, <2>5, <2>6, <2>7, <2>8, <2>9 DEF Handler, DeleteSlot
<1>3. QED
  BY <1>1, <1>2 DEF Next, vars, Publish, registry, history

-----------------------------------------------------------------------------
(* The lists, as MemberLists has them *)

\* What the list of request q becomes by its change.
Wanted(q) ==
    IF Op[q].kind \in {"add", "pairAdd"} THEN Content(Target(q)) \union {Op[q].name}
    ELSE Content(Target(q)) \ {Op[q].name}

\* Until its list is damaged, whoever writes it is alone and has emptied it, and whoever is
\* about to write holds what the list is to become, unless another one comes first.
WritesSo(q) ==
    pc[q] \in Editing =>
        /\ Op[q].kind \in {"add", "pairAdd", "remove", "pairRemove"}
        /\ Target(q) \notin damaged =>
              /\ pc[q] = "fill" => file[Target(q)] = {} /\ Filling(Target(q)) = {q}
              /\ pc[q] \in {"makeDir", "truncate"} /\ Filling(Target(q)) = {} => buf[q] = Wanted(q)

ListsInv == \A q \in Requests : WritesSo(q)

\* The four things a step of request m can do to the lists: leave them (a write that is
\* given up damages its list), hold a new content for one, make its directory, and change one.
AtMost(m) == Alone(m) /\ damaged' \in {damaged, damaged \union {Target(m)}}

Leaves(m) ==
    /\ AtMost(m) /\ UNCHANGED file
    /\ pc'[m] \notin Editing
    /\ IF pc[m] = "fill" THEN Target(m) \in damaged' /\ pc'[m] = "failed" ELSE damaged' = damaged
    /\ \/ Call(m)' = Call(m)
       \/ Call(m) = "open" /\ Call(m)' \in {"applied", "answered", "failed"}
       \/ Call(m) = "applied" /\ Call(m)' \in {"answered", "failed"}
       \/ Call(m) = "failed" /\ Call(m)' = "open"

Begins(m) ==
    /\ AtMost(m) /\ UNCHANGED file
    /\ pc[m] = "new" /\ pc'[m] = "makeDir"
    /\ Op[m].kind \in {"add", "pairAdd", "remove", "pairRemove"}
    /\ buf'[m] = Wanted(m)

Makes(m) ==
    /\ AtMost(m) /\ UNCHANGED <<file, buf>>
    /\ pc[m] = "makeDir" /\ pc'[m] = "truncate"

Changed(m) ==
    /\ AtMost(m)
    /\ \A l \in Lists \ {Target(m)} : file'[l] = file[l]
    /\ Target(m) \in damaged' \/ \A p \in Requests \ {m} : pc[p] \in Editing => Target(p) # Target(m)
    /\ \/ /\ pc[m] = "truncate" /\ pc'[m] = "fill" /\ buf'[m] = buf[m]
          /\ file'[Target(m)] = {}
       \/ /\ pc[m] = "fill" /\ pc'[m] = "open"
          /\ file[Target(m)] = {} => file'[Target(m)] = buf[m]
       \/ /\ pc[m] = "new" /\ pc'[m] = "open"
          /\ Op[m].kind = "pairDelete" /\ file'[Target(m)] = None

LEMMA ListMoves ==
    ASSUME TypeOK, [Next]_vars
    PROVE  \/ UNCHANGED <<setting, file, pc, buf, damaged>>
           \/ \E m \in Requests : Leaves(m) \/ Begins(m) \/ Makes(m) \/ Changed(m)
<1>0. \A p \in Requests : Target(p) \in Lists
  BY Params DEF TypeOK
<1>1. ASSUME NEW m \in Requests, Handler(m) \/ Retry(m), UNCHANGED setting
      PROVE  Leaves(m) \/ Begins(m) \/ Makes(m) \/ Changed(m)
  <2>1. ASSUME NEW content, Edit(m, content), content = Wanted(m),
               Op[m].kind \in {"add", "pairAdd", "remove", "pairRemove"}
        PROVE  Begins(m)
    BY <1>1, <2>1 DEF Edit, Goto, Reply, registry, history, TypeOK, Alone, AtMost, Begins
  <2>2. ASSUME NEW r, NoChange(m, r), r # "none"
        PROVE  Leaves(m)
    BY <1>1, <2>2 DEF NoChange, Goto, registry, history, TypeOK, Alone, AtMost, Leaves, Editing, Reply,
                     Call
  <2>3. CASE AddMember(m)
    <3>1. CASE Op[m].name \in Content(Target(m))
      BY <1>1, <2>3, <3>1
         DEF AddMember, Goto, registry, history, TypeOK, Alone, AtMost, Leaves, Editing, Reply, Call
    <3>2. CASE Op[m].name \notin Content(Target(m))
      BY <2>1, <2>3, <3>2 DEF AddMember, Wanted
    <3>3. QED
      BY <3>1, <3>2
  <2>4. CASE RemoveMember(m)
    BY <2>1, <2>2, <2>4 DEF RemoveMember, Wanted
  <2>5. CASE AddPairMember(m)
    BY <2>1, <2>2, <2>5 DEF AddPairMember, Wanted
  <2>6. ASSUME Truncate(m)
        PROVE  Changed(m)
    BY <1>0, <1>1, <2>6 DEF Truncate, Goto, Changes, TypeOK, Alone, AtMost, Changed
  <2>7. ASSUME Fill(m)
        PROVE  Changed(m)
    <3>1. {} # None
      BY PermissionsAssumption
    <3>2. file[Target(m)] = {} => file'[Target(m)] = buf[m]
      BY <1>0, <2>7, <3>1 DEF Fill, TypeOK
    <3>3. QED
      BY <1>0, <1>1, <2>7, <3>2 DEF Fill, Goto, Changes, TypeOK, Alone, AtMost, Changed
  <2>8. CASE DeleteSlot(m)
    BY <1>0, <1>1, <2>2, <2>8 DEF DeleteSlot, Goto, Changes, TypeOK, Alone, AtMost, Changed, Reply
  <2>9. CASE \/ OpenDir(m) \/ (\E l \in Lists : ReadList(m, l)) \/ Scanned(m) \/ TruncateConf(m)
             \/ FillConf(m) \/ SchedulePush(m) \/ Retry(m)
    BY <1>1, <2>9
       DEF OpenDir, ReadList, Scanned, TruncateConf, FillConf, SchedulePush, Retry,
           Alone, AtMost, Goto, registry, history, TypeOK, Editing, Leaves, Call
  <2>10. CASE Fails(m) \/ ClientGone(m)
    <3>1. /\ Alone(m) /\ UNCHANGED file /\ pc'[m] = "failed" /\ pc[m] \notin {"done", "failed"}
          /\ damaged' = IF pc[m] = "fill" THEN damaged \union {Target(m)} ELSE damaged
      BY <1>1, <2>10 DEF Fails, ClientGone, Alone, Reply, registry, TypeOK, Editing, Scanning
    <3>2. QED
      BY <3>1 DEF AtMost, Leaves, Editing, Call
  <2>11. ASSUME MakeDir(m)
         PROVE  Makes(m)
    BY <1>1, <2>11 DEF MakeDir, Goto, scan, TypeOK, Alone, AtMost, Makes
  <2>12. QED
    BY <1>1, <2>3, <2>4, <2>5, <2>6, <2>7, <2>8, <2>9, <2>10, <2>11 DEF Handler
<1>2. QED
  BY <1>1 DEF Next, vars, Publish, registry, history

LEMMA ListsStep ==
    ASSUME TypeOK, ListsInv, [Next]_vars
    PROVE  ListsInv'
<1>1. CASE UNCHANGED <<setting, file, pc, buf, damaged>>
  <2>1. Op' = Op /\ \A p \in Requests : Target(p)' = Target(p)
    BY <1>1, Constantly
  <2>2. \A p \in Requests : /\ Filling(Target(p))' = Filling(Target(p))
                             /\ Wanted(p)' = Wanted(p)
    BY <1>1, <2>1 DEF Filling, Wanted, Content
  <2>3. QED
    BY <1>1, <2>1, <2>2 DEF ListsInv, WritesSo
<1>2. ASSUME NEW m \in Requests, Leaves(m) \/ Begins(m) \/ Makes(m) \/ Changed(m), NEW q \in Requests,
             pc'[q] \in Editing
      PROVE  WritesSo(q)'
  <2>1. /\ Op' = Op /\ \A p \in Requests : Target(p)' = Target(p)
        /\ Alone(m) /\ damaged \subseteq damaged'
        /\ \A p \in Requests \ {m} : pc'[p] = pc[p] /\ buf'[p] = buf[p]
    BY <1>2, Constantly DEF Leaves, Begins, Makes, Changed, Alone, AtMost
  <2>2. Op[q].kind \in {"add", "pairAdd", "remove", "pairRemove"}
    BY <1>2, <2>1 DEF ListsInv, WritesSo, Leaves, Begins, Makes, Changed, Editing
  <2>3. ASSUME Target(q) \notin damaged'
        PROVE  /\ pc'[q] = "fill" => file'[Target(q)] = {} /\ Filling(Target(q))' = {q}
               /\ pc'[q] \in {"makeDir", "truncate"} /\ Filling(Target(q))' = {} => buf'[q] = Wanted(q)'
    <3>0. Target(q) \notin damaged /\ Target(q) \in Lists
      BY <2>1, <2>3, Params DEF TypeOK
    <3>1. ASSUME UNCHANGED file, Filling(Target(q))' = Filling(Target(q)), q # m
          PROVE  /\ pc'[q] = "fill" => file'[Target(q)] = {} /\ Filling(Target(q))' = {q}
                 /\ pc'[q] \in {"makeDir", "truncate"} /\ Filling(Target(q))' = {} => buf'[q] = Wanted(q)'
      <4>1. Wanted(q)' = Wanted(q)
        BY <2>1, <3>1 DEF Wanted, Content
      <4>2. WritesSo(q) /\ pc'[q] = pc[q] /\ buf'[q] = buf[q]
        BY <2>1, <3>1 DEF ListsInv
      <4>3. QED
        BY <1>2, <3>0, <3>1, <4>1, <4>2 DEF WritesSo
    <3>2. CASE Leaves(m)
      <4>1. q # m
        BY <1>2, <3>2 DEF Leaves
      <4>2. pc[m] = "fill" => Target(m) # Target(q)
        BY <2>3, <3>2 DEF Leaves
      <4>3. Filling(Target(q))' = Filling(Target(q))
        BY <2>1, <3>2, <4>2 DEF Filling, Leaves, Editing
      <4>4. QED
        BY <3>1, <3>2, <4>1, <4>3 DEF Leaves
    <3>3. CASE Begins(m)
      <4>1. Filling(Target(q))' = Filling(Target(q)) /\ UNCHANGED file
        BY <2>1, <3>3 DEF Filling, Begins
      <4>2. CASE q = m
        <5>1. Wanted(m)' = Wanted(m)
          BY <2>1, <4>1 DEF Wanted, Content
        <5>2. QED
          BY <3>3, <4>2, <5>1 DEF Begins
      <4>3. QED
        BY <3>1, <4>1, <4>2
    <3>7. CASE Makes(m)
      <4>1. Filling(Target(q))' = Filling(Target(q)) /\ UNCHANGED file
        BY <2>1, <3>7 DEF Filling, Makes
      <4>2. CASE q = m
        <5>1. Wanted(m)' = Wanted(m) /\ WritesSo(m)
          BY <2>1, <4>1 DEF Wanted, Content, ListsInv
        <5>2. QED
          BY <3>0, <3>7, <4>1, <4>2, <5>1 DEF Makes, WritesSo, Editing
      <4>3. QED
        BY <3>1, <4>1, <4>2
    <3>4. CASE Changed(m) /\ Target(m) # Target(q)
      <4>1. /\ Filling(Target(q))' = Filling(Target(q))
            /\ file'[Target(q)] = file[Target(q)]
            /\ q # m
        BY <2>1, <3>0, <3>4 DEF Filling, Changed
      <4>2. Wanted(q)' = Wanted(q)
        BY <2>1, <4>1 DEF Wanted, Content
      <4>3. WritesSo(q) /\ pc'[q] = pc[q] /\ buf'[q] = buf[q]
        BY <2>1, <4>1 DEF ListsInv
      <4>4. QED
        BY <1>2, <3>0, <4>1, <4>2, <4>3 DEF WritesSo
    <3>5. CASE Changed(m) /\ Target(m) = Target(q)
      <4>1. \A p \in Requests \ {m} : pc'[p] \in Editing => Target(p) # Target(q)
        BY <2>1, <2>3, <3>5 DEF Changed
      <4>2. q = m /\ pc'[m] = "fill" /\ file'[Target(q)] = {}
        BY <1>2, <3>5, <4>1 DEF Changed, Editing
      <4>3. Filling(Target(q))' = {q}
        BY <2>1, <4>1, <4>2 DEF Filling, Editing
      <4>4. QED
        BY <4>2, <4>3
    <3>6. QED
      BY <1>2, <3>2, <3>3, <3>4, <3>5, <3>7
  <2>4. QED
    BY <2>1, <2>2, <2>3 DEF WritesSo
<1>3. QED
  BY <1>1, <1>2, ListMoves DEF ListsInv, WritesSo

\* The members of a list that a step of m is not about.
LEMMA MembersSame ==
    ASSUME NEW l \in Lists, NEW m \in Requests, Alone(m), file'[l] = file[l],
           Target(m) # l \/ (pc[m] # "fill" /\ pc'[m] # "fill")
    PROVE  Members(l)' = Members(l)
<1>1. \A p \in Requests : Target(p)' = Target(p)
  BY Constantly DEF Alone
<1>2. Filling(l)' = Filling(l) /\ m \notin Filling(l)
  BY <1>1 DEF Filling, Alone
<1>3. Content(l)' = Content(l) /\ \A p \in Filling(l) : buf'[p] = buf[p]
  BY <1>2 DEF Content, Filling, Alone
<1>4. Filling(l) # {} => (CHOOSE q \in Filling(l) : TRUE) \in Filling(l)
  OBVIOUS
<1>5. QED
  BY <1>2, <1>3, <1>4 DEF Members

LEMMA MembersNames ==
    ASSUME TypeOK'
    PROVE  \A l \in Lists : Members(l)' \in SUBSET Names
<1> SUFFICES ASSUME NEW l \in Lists
             PROVE  Members(l)' \in SUBSET Names
  OBVIOUS
<1>1. Content(l)' \in SUBSET Names
  <2>1. file'[l] \in (SUBSET Names) \union {None}
    BY DEF TypeOK
  <2>2. file'[l] \in SUBSET Names \/ file'[l] = None
    BY <2>1, Zenon
  <2>3. QED
    BY <2>2 DEF Content
<1>2. Filling(l)' # {} => (CHOOSE q \in Filling(l)' : TRUE) \in Requests
  BY DEF Filling
<1>3. \A q \in Requests : buf'[q] \in SUBSET Names
  BY DEF TypeOK
<1>4. QED
  BY <1>1, <1>2, <1>3 DEF Members

\* Every step of the handlers is a step of MemberLists or none.
LEMMA RegistryStep ==
    ASSUME TypeOK, TypeOK', ListsInv, [Next]_vars
    PROVE  [Registry!Next]_(Registry!lists)
<1> DEFINE members == [l \in Lists |-> Members(l)]
           call == [q \in Requests |-> Call(q)]
<1>1. ASSUME \A l \in Lists : Members(l)' = Members(l)
      PROVE  members' = members
  BY <1>1
<1>2. CASE UNCHANGED <<setting, file, pc, buf, damaged>>
  <2>1. Op' = Op /\ \A p \in Requests : Target(p)' = Target(p) /\ Call(p)' = Call(p)
    BY <1>2, Constantly DEF Call
  <2>2. ASSUME NEW l \in Lists
        PROVE  Members(l)' = Members(l)
    <3>1. Filling(l)' = Filling(l) /\ Content(l)' = Content(l)
      BY <1>2, <2>1 DEF Filling, Content
    <3>2. QED
      BY <1>2, <3>1 DEF Members
  <2>3. members' = members /\ call' = call
    BY <1>1, <2>1, <2>2
  <2>4. QED
    BY <1>2, <2>1, <2>3 DEF Registry!lists
<1>3. ASSUME NEW m \in Requests, Leaves(m) \/ Begins(m) \/ Makes(m) \/ Changed(m)
      PROVE  [Registry!Next]_(Registry!lists)
  <2>1. /\ AtMost(m) /\ Alone(m) /\ Op' = Op /\ \A p \in Requests : Target(p)' = Target(p)
        /\ Target(m) \in Lists
    BY <1>3, Constantly, Params DEF Leaves, Begins, Makes, Changed, AtMost, Alone, TypeOK
  <2> PICK t \in Lists : t = Target(m)
    BY <2>1
  <2>2. \A p \in Requests \ {m} : Call(p)' = Call(p)
    BY <2>1 DEF Alone, Call
  <2>3. /\ call' = [call EXCEPT ![m] = Call(m)'] /\ call[m] = Call(m)
        /\ Call(m)' = Call(m) => call' = call
    BY <2>2
  <2>4. ASSUME NEW l \in Lists \ {t}
        PROVE  Members(l)' = Members(l)
    <3>1. file'[l] = file[l]
      BY <1>3 DEF Leaves, Begins, Makes, Changed
    <3>2. QED
      BY <2>1, <3>1, MembersSame
  <2>5. ASSUME t \in damaged'
        PROVE  Registry!Damage(t)
    <3>1. \A l \in Lists : Members(l)' \in SUBSET Names
      BY MembersNames
    <3>2. members' \in [Lists -> SUBSET Names]
      BY <3>1
    <3>3. \A l \in Lists \ {t} : members'[l] = members[l]
      BY <2>4
    <3>4. damaged' = damaged \union {t}
      BY <2>1, <2>5 DEF AtMost
    <3>5. QED
      BY <3>2, <3>3, <3>4 DEF Registry!Damage
  <2>6. ASSUME Members(t)' = Members(t), damaged' = damaged
        PROVE  Registry!Keep
    <3>1. members' = members
      BY <1>1, <2>4, <2>6
    <3>2. QED
      BY <2>6, <3>1 DEF Registry!Keep
  <2>7. CASE (Leaves(m) /\ pc[m] # "fill") \/ Begins(m) \/ Makes(m)
    <3>1. pc[m] # "fill" /\ pc'[m] # "fill" /\ UNCHANGED file
      BY <2>7 DEF Leaves, Begins, Makes, Editing
    <3>2. Members(t)' = Members(t)
      BY <2>1, <3>1, MembersSame
    <3>3. CASE Leaves(m)
      <4>1. Registry!Keep
        BY <2>6, <2>7, <3>1, <3>2, <3>3 DEF Leaves
      <4>2. CASE Call(m)' = Call(m)
        BY <2>1, <2>3, <4>1, <4>2 DEF Registry!Keep, Registry!lists
      <4>3. CASE Call(m) = "open" /\ Call(m)' = "applied"
        BY <2>1, <2>3, <4>1, <4>3 DEF Registry!Next, Registry!Apply, Registry!Becomes
      <4>4. CASE Call(m) \in {"open", "applied"} /\ Call(m)' = "answered"
        BY <2>1, <2>3, <4>1, <4>4 DEF Registry!Next, Registry!Answer, Registry!Becomes
      <4>5. CASE Call(m) \in {"open", "applied"} /\ Call(m)' = "failed"
        BY <2>1, <2>3, <4>1, <4>5 DEF Registry!Next, Registry!Fail, Registry!Becomes
      <4>6. CASE Call(m) = "failed" /\ Call(m)' = "open"
        BY <2>1, <2>3, <4>1, <4>6 DEF Registry!Next, Registry!Resend, Registry!Becomes
      <4>7. QED
        BY <3>3, <4>2, <4>3, <4>4, <4>5, <4>6 DEF Leaves
    <3>4. CASE Begins(m) \/ Makes(m)
      <4>1. Call(m)' = Call(m)
        BY <3>4 DEF Begins, Makes, Call
      <4>2. CASE t \in damaged'
        BY <2>1, <2>3, <2>5, <4>1, <4>2 DEF Registry!Next
      <4>3. CASE t \notin damaged'
        <5>1. damaged' = damaged
          BY <2>1, <4>3 DEF AtMost
        <5>2. members' = members
          BY <2>6, <3>2, <5>1 DEF Registry!Keep
        <5>3. QED
          BY <2>1, <2>3, <4>1, <5>1, <5>2 DEF Registry!lists
      <4>4. QED
        BY <4>2, <4>3
    <3>5. QED
      BY <2>7, <3>3, <3>4
  <2>8. CASE Leaves(m) /\ pc[m] = "fill"
    <3>1. t \in damaged' /\ Call(m) = "applied" /\ Call(m)' = "failed"
      BY <2>8 DEF Leaves, Call
    <3>2. QED
      BY <2>1, <2>3, <2>5, <3>1 DEF Registry!Next, Registry!Fail, Registry!Becomes, Target
  <2>9. CASE Changed(m)
    <3>1. \/ pc[m] \in {"truncate", "new"} /\ Call(m) = "open" /\ Call(m)' = "applied"
          \/ pc[m] = "fill" /\ Call(m)' = Call(m)
      BY <2>9 DEF Changed, Call
    <3>2. CASE t \in damaged'
      BY <2>1, <2>3, <2>5, <3>1, <3>2
         DEF Registry!Next, Registry!Apply, Registry!Becomes, Target
    <3>3. ASSUME t \notin damaged'
          PROVE  /\ \A p \in Requests \ {m} : Target(p) = t => pc[p] # "fill" /\ pc'[p] # "fill"
                 /\ damaged' = damaged
      BY <2>1, <2>9, <3>3 DEF Changed, AtMost, Alone, Editing
    <3>4. ASSUME NEW names, Members(t)' = names
          PROVE  members' = [members EXCEPT ![t] = names]
      BY <2>1, <2>4, <3>4
    <3>5. CASE t \notin damaged' /\ pc[m] = "truncate"
      <4>0. pc'[m] = "fill"
        BY <2>9, <3>5 DEF Changed
      <4>1. Filling(t) = {} /\ Filling(t)' = {m}
        BY <2>1, <3>3, <3>5, <4>0 DEF Filling
      <4>2. /\ buf[m] = Wanted(m)
            /\ Op[m].kind \in {"add", "pairAdd", "remove", "pairRemove"}
        BY <3>3, <3>5, <4>1 DEF ListsInv, WritesSo, Editing
      <4>3. Members(t)' = Wanted(m)
        BY <2>1, <2>9, <3>5, <4>1, <4>2 DEF Changed, Members
      <4>4. Members(t) = Content(t) /\ members[t] = Members(t)
        BY <2>1, <4>1 DEF Members
      <4>5. members' = [members EXCEPT ![t] = Wanted(m)]
        BY <3>4, <4>3
      <4>6. CASE Op[m].kind \in {"add", "pairAdd"}
        <5>1. Wanted(m) = members[Op[m].list] \union {Op[m].name}
          BY <4>4, <4>6 DEF Wanted, Target
        <5>2. Registry!Add(m)
          BY <2>1, <3>3, <3>5, <4>5, <4>6, <5>1 DEF Registry!Add, Registry!Change, Target
        <5>3. QED
          BY <2>1, <2>3, <3>1, <3>5, <5>2 DEF Registry!Next, Registry!Apply, Registry!Becomes
      <4>7. CASE Op[m].kind \in {"remove", "pairRemove"}
        <5>1. Wanted(m) = members[Op[m].list] \ {Op[m].name}
          BY <4>4, <4>7 DEF Wanted, Target
        <5>2. Registry!Remove(m)
          BY <2>1, <3>3, <3>5, <4>5, <4>7, <5>1 DEF Registry!Remove, Registry!Change, Target
        <5>3. QED
          BY <2>1, <2>3, <3>1, <3>5, <5>2 DEF Registry!Next, Registry!Apply, Registry!Becomes
      <4>8. QED
        BY <4>2, <4>6, <4>7
    <3>6. CASE t \notin damaged' /\ pc[m] = "fill"
      <4>0. pc'[m] = "open"
        BY <2>9, <3>6 DEF Changed
      <4>1. /\ file[t] = {} /\ Filling(t) = {m}
            /\ file'[t] = buf[m]
        BY <2>9, <3>3, <3>6 DEF ListsInv, WritesSo, Editing, Changed
      <4>2. Filling(t)' = {}
        BY <2>1, <3>3, <3>6, <4>0 DEF Filling
      <4>3. Members(t) = buf[m] /\ Members(t)' = Content(t)'
        BY <2>1, <4>1, <4>2 DEF Members
      <4>4. buf[m] \in SUBSET Names /\ buf[m] # None
        BY PermissionsAssumption DEF TypeOK
      <4>5. Content(t)' = buf[m]
        BY <2>1, <4>1, <4>4 DEF Content
      <4>6. Registry!Keep
        BY <2>6, <3>3, <3>6, <4>3, <4>5
      <4>7. QED
        BY <2>1, <2>3, <3>1, <3>6, <4>6 DEF Registry!Keep, Registry!lists
    <3>7. CASE t \notin damaged' /\ pc[m] = "new"
      <4>0. pc'[m] = "open" /\ Op[m].kind = "pairDelete" /\ file'[t] = None
        BY <2>9, <3>7 DEF Changed
      <4>1. Filling(t)' = {}
        BY <2>1, <3>3, <3>7, <4>0 DEF Filling
      <4>2. Members(t)' = Content(t)'
        BY <2>1, <4>1 DEF Members
      <4>3. Content(t)' = {}
        BY <2>1, <4>0 DEF Content
      <4>4. members' = [members EXCEPT ![t] = {}]
        BY <3>4, <4>2, <4>3
      <4>5. Registry!Delete(m)
        BY <2>1, <3>3, <3>7, <4>0, <4>4 DEF Registry!Delete, Registry!Change, Target
      <4>6. QED
        BY <2>1, <2>3, <3>1, <3>7, <4>5 DEF Registry!Next, Registry!Apply, Registry!Becomes
    <3>8. QED
      BY <2>9, <3>2, <3>5, <3>6, <3>7 DEF Changed
  <2>10. QED
    BY <1>3, <2>7, <2>8, <2>9
<1>4. QED
  BY <1>2, <1>3, ListMoves

-----------------------------------------------------------------------------
(* The theorems *)

LEMMA InitIInv == Init => IInv
<1> SUFFICES ASSUME Init
             PROVE  IInv
  OBVIOUS
<1>1. TypeOK
  <2>1. NoRules \in [Lists -> SUBSET Names]
    BY DEF NoRules
  <2>2. file \in [Lists -> (SUBSET Names) \union {None}]
    <3>1. file = [l \in Lists |-> None]
      BY DEF Init
    <3>2. QED
      BY <3>1
  <2>3. /\ setting \in Settings /\ dirs \subseteq Workspaces /\ dirty \in BOOLEAN
        /\ retries \in 0 .. MaxRetries /\ exposed \subseteq Lists /\ damaged \subseteq Lists
    <3>1. MaxRetries \in Nat /\ retries = 0
      BY PermissionsAssumption DEF Init
    <3>2. retries \in 0 .. MaxRetries
      BY <3>1
    <3>3. QED
      BY <3>2 DEF Init
  <2>4. /\ conf \in [Lists -> SUBSET Names] /\ published \in [Lists -> SUBSET Names]
        /\ got \in [Requests -> [Lists -> SUBSET Names]]
    <3>1. conf = NoRules /\ published = NoRules /\ got = [q \in Requests |-> NoRules]
      BY DEF Init
    <3>2. QED
      BY <2>1, <3>1
  <2>5. /\ pc \in [Requests -> Steps] /\ buf \in [Requests -> SUBSET Names]
        /\ todo \in [Requests -> SUBSET Lists] /\ result \in [Requests -> Results]
        /\ behind \in [Requests -> SUBSET Lists]
    BY DEF Init, Steps, Results
  <2>6. QED
    BY <2>2, <2>3, <2>4, <2>5 DEF TypeOK
<1>2. \A l \in Lists : Expected(l) = {}
  BY DEF Init, Expected, Content
<1>3. ConfInv
  BY <1>2
     DEF Init, ConfInv, Listed, ReadSo, WritesAlone, Generated, Scheduled, Scanning, NoRules, Lists
<1>4. KeepsInv
  BY DEF Init, KeepsInv, EditsSo, Kept, Editing
<1>5. QED
  BY <1>1, <1>3, <1>4 DEF IInv

LEMMA Inductive == IInv /\ [Next]_vars => IInv'
<1> SUFFICES ASSUME IInv, [Next]_vars
             PROVE  IInv'
  OBVIOUS
<1>1. TypeOK'
  <2>1. CASE Next
    BY <2>1, TypeStep DEF IInv
  <2>2. CASE UNCHANGED vars
    BY <2>2 DEF IInv, TypeOK, vars
  <2>3. QED
    BY <2>1, <2>2
<1>2. QED
  BY <1>1, ConfStep, KeepsStep DEF IInv

LEMMA Invariant == Spec => []IInv
BY InitIInv, Inductive, PTL DEF Spec

\* Every variable keeps its type, whatever the requests do and however they fail.
THEOREM TypeCorrect == Spec => []TypeOK
<1>1. IInv => TypeOK
  BY DEF IInv
<1>2. QED
  BY <1>1, Invariant, PTL

\* Once requests and pushes have settled, the server gives the access the registry describes,
\* but for the lists that a hazard of the code has touched (regenerate_conf).
THEOREM Published == Spec => []AccessIsPublished
<1>1. IInv => AccessIsPublished
  <2> SUFFICES ASSUME IInv, Quiescent, ~dirty, NEW l \in Lists \ exposed
               PROVE  published[l] = Expected(l)
    BY DEF AccessIsPublished
  <2>1. \A q \in Requests : ~Covers(q, l) /\ pc[q] \notin {"fillConf", "schedule"}
    BY DEF Quiescent, Covers
  <2>2. conf[l] = Expected(l)
    BY <2>1 DEF IInv, ConfInv, Generated
  <2>3. published[l] = conf[l]
    BY <2>1 DEF IInv, ConfInv, Scheduled
  <2>4. QED
    BY <2>2, <2>3
<1>2. QED
  BY <1>1, Invariant, PTL

\* A member that a request has added stays until a request removes it, unless a write of the
\* list was lost (add_member, handle_add_pair_member).
THEOREM AddedKept == Spec => []KeptUnlessDamaged
<1>1. IInv => KeptUnlessDamaged
  <2> SUFFICES ASSUME IInv, NEW q \in Requests, pc[q] = "done", result[q] = "changed",
                      Op[q].kind \in {"add", "pairAdd"}, \A p \in Removals(q) : result[p] = "none",
                      Op[q].list \notin damaged
               PROVE  \/ Op[q].name \in Content(Op[q].list)
                      \/ \E p \in Requests : pc[p] = "fill" /\ Target(p) = Op[q].list
    BY DEF KeptUnlessDamaged, Removals
  <2>1. Kept(q) /\ Target(q) = Op[q].list
    BY DEF Kept, Editing, Target
  <2>2. KeptSo(q)
    BY <2>1 DEF IInv, KeepsInv
  <2>3. QED
    BY <2>1, <2>2 DEF KeptSo, Filling
<1>2. QED
  BY <1>1, Invariant, PTL

\* The handlers, a file access at a time, implement lists that each call changes at once, at
\* most one time and before its reply (MemberLists), but for the lists that a write was lost
\* for: nobody whom a request removed comes back unless somebody calls for it.
THEOREM Refinement == Spec => ImplementsLists
<1>1. Init => Registry!Init /\ ListsInv
  <2> SUFFICES ASSUME Init
               PROVE  Registry!Init /\ ListsInv
    OBVIOUS
  <2>1. \A l \in Lists : Members(l) = {}
    BY DEF Init, Members, Filling, Content
  <2>2. /\ [l \in Lists |-> Members(l)] = [l \in Lists |-> {}] /\ damaged = {}
        /\ [q \in Requests |-> Call(q)] = [q \in Requests |-> "open"]
    BY <2>1 DEF Init, Call
  <2>3. QED
    BY <2>2 DEF Init, Registry!Init, ListsInv, WritesSo, Editing
<1>2. IInv /\ ListsInv /\ [Next]_vars => ListsInv'
  BY ListsStep DEF IInv
<1>3. IInv /\ IInv' /\ ListsInv /\ [Next]_vars => [Registry!Next]_(Registry!lists)
  BY RegistryStep DEF IInv
<1>4. QED
  BY <1>1, <1>2, <1>3, Invariant, PTL DEF Spec, ImplementsLists, Registry!Spec

-----------------------------------------------------------------------------
(* One request at a time *)

\* No two requests are being served, and neither file accesses nor clients fail.
OneByOne ==
    \A p, q \in Requests : p # q =>
        pc[p] \in {"new", "done", "failed"} \/ pc[q] \in {"new", "done", "failed"}

Reliable == Faults = {}

\* None of the hazards that the properties except has occurred.
Unharmed == exposed = {} /\ damaged = {} /\ \A q \in Requests : behind[q] = {}

LEMMA UnharmedStep ==
    ASSUME TypeOK, OneByOne, OneByOne', Reliable, Unharmed, [Next]_vars
    PROVE  Unharmed'
<1>0. behind \in [Requests -> SUBSET Lists] /\ pc \in [Requests -> Steps]
  BY DEF TypeOK
<1> USE <1>0
<1>1. ASSUME NEW q \in Requests, NEW l \in Lists, Changes(q, l), UNCHANGED exposed,
             \A p \in Requests \ {q} : pc[p] \notin Scanning \union Editing
      PROVE  Unharmed'
  BY <1>1 DEF Changes, Outdates, Unharmed
<1>9. ASSUME NEW q \in Requests, MakeDir(q)
      PROVE  Unharmed'
  <2>1. \A p \in Requests \ {q} : pc[p] \notin Scanning
    BY <1>9 DEF MakeDir, Goto, OneByOne, Scanning
  <2>2. QED
    BY <1>9, <2>1 DEF MakeDir, Outdates, Unharmed
<1>2. ASSUME NEW q \in Requests, Truncate(q) \/ Fill(q) \/ DeleteSlot(q)
      PROVE  Unharmed'
  <2>1. Target(q) \in Lists
    BY Params DEF TypeOK
  <2>2. CASE DeleteSlot(q) /\ file[Target(q)] = None
    BY <2>2 DEF DeleteSlot, NoChange, Unharmed, history
  <2>3. CASE Truncate(q) \/ Fill(q)
    <3>1. \A p \in Requests \ {q} : pc[p] \notin Scanning \union Editing
      BY <2>3 DEF Truncate, Fill, Goto, OneByOne, Scanning, Editing
    <3>2. QED
      BY <1>1, <2>1, <2>3, <3>1 DEF Truncate, Fill
  <2>4. CASE DeleteSlot(q) /\ file[Target(q)] # None
    <3>1. pc'[q] = "open" /\ \A p \in Requests \ {q} : pc'[p] = pc[p]
      BY <2>4 DEF DeleteSlot, NoChange, Goto
    <3>2. \A p \in Requests \ {q} : pc[p] \notin Scanning \union Editing
      BY <3>1 DEF OneByOne, Scanning, Editing
    <3>3. QED
      BY <1>1, <2>1, <2>4, <3>2 DEF DeleteSlot, NoChange
  <2>5. QED
    BY <1>2, <2>2, <2>3, <2>4
<1>3. ASSUME NEW q \in Requests, TruncateConf(q) \/ FillConf(q)
      PROVE  Unharmed'
  <2>1. CASE TruncateConf(q)
    <3>1. ~ConfShared(q)
      BY <2>1 DEF TruncateConf, Goto, ConfShared, OneByOne
    <3>2. QED
      BY <2>1, <3>1 DEF TruncateConf, Unharmed
  <2>2. CASE FillConf(q)
    BY <2>2 DEF FillConf, Unharmed
  <2>3. QED
    BY <1>3, <2>1, <2>2
<1>4. ASSUME NEW q \in Requests, NEW l \in Lists, ReadList(q, l)
      PROVE  Unharmed'
  BY <1>4 DEF ReadList, Reliable, Unharmed
<1>5. ASSUME NEW q \in Requests,
             \/ AddMember(q) \/ RemoveMember(q) \/ AddPairMember(q)
             \/ OpenDir(q) \/ Scanned(q) \/ SchedulePush(q) \/ Retry(q)
      PROVE  Unharmed'
  BY <1>5 DEF AddMember, RemoveMember, AddPairMember, Edit, NoChange, OpenDir, Scanned, SchedulePush,
              Retry, history, Unharmed
<1>6. \A q \in Requests : ~Fails(q) /\ ~ClientGone(q)
  BY DEF Fails, ClientGone, Reliable
<1>7. ASSUME Publish \/ UNCHANGED vars
      PROVE  Unharmed'
  BY <1>7 DEF Publish, vars, history, Unharmed
<1>8. QED
  BY <1>2, <1>3, <1>4, <1>5, <1>6, <1>7, <1>9 DEF Next, Handler

\* What the registry promises without exceptions.
Exact ==
    /\ damaged = {}
    /\ Quiescent /\ ~dirty => \A l \in Lists : published[l] = Expected(l)

\* The exceptions of the properties above come from concurrency and failures alone: of
\* requests that are served one by one without an error, whatever they ask for and in
\* whatever order, no write is ever lost, and once a push is through the server gives
\* exactly the access that the registry describes.
THEOREM ExactOneByOne == Spec /\ []OneByOne /\ []Reliable => []Exact
<1>1. Init => Unharmed
  BY DEF Init, Unharmed
<1>2. IInv /\ OneByOne /\ OneByOne' /\ Reliable /\ Unharmed /\ [Next]_vars => Unharmed'
  BY UnharmedStep DEF IInv
<1>3. AccessIsPublished /\ Unharmed => Exact
  BY DEF AccessIsPublished, Unharmed, Exact
<1>4. QED
  BY <1>1, <1>2, <1>3, Invariant, Published, PTL DEF Spec
=============================================================================
