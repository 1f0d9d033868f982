--------------------------- MODULE DealChatProofs ---------------------------
(***************************************************************************)
(* Theorems about DealChat, for any requests at once, any messages and any *)
(* faults.                                                                 *)
(***************************************************************************)
EXTENDS DealChat, TLAPS

Pcs == {"start", "lessor", "lessee", "insert", "undo_both", "undo_lessor",
        "undo_lessee", "link", "failed"}
Handlers == [pc : Pcs, user : Sides \cup {"stranger"}, cancelled : BOOLEAN]

(* Facts about the operators of the model.                                   *)
LEMMA TopicsOfIn ==
    ASSUME NEW S
    PROVE  \A x : x \in TopicsOf(S) <=> \E t \in S : x = t.lessor \/ x = t.lessee
  BY DEF TopicsOf

LEMMA MineType ==
    ASSUME NEW r \in Requests, NEW side \in Sides
    PROVE  Mine(r, side) \in Topic /\ Mine(r, side).by = r /\ Mine(r, side).side = side
  BY DEF Mine, Topic

LEMMA ChatType ==
    ASSUME NEW r \in Requests
    PROVE  /\ Chat(r) \in Row
           /\ Chat(r).lessor = Mine(r, "lessor") /\ Chat(r).lessee = Mine(r, "lessee")
           /\ \A side \in Sides : Chat(r)[side] = Mine(r, side)
  BY MineType DEF Chat, Row, Sides

LEMMA ChatUnique ==
    ASSUME NEW r \in Requests, NEW s \in Requests, Chat(r) = Chat(s)
    PROVE  r = s
  BY ChatType, MineType DEF Sides

LEMMA FaultType ==
    ASSUME faults \in 0..MaxFaults, NEW k, Fault(k) PROVE faults' \in 0..MaxFaults
  BY BoundsAssumption DEF Fault

(* What a step of a handler writes to its locals.                            *)
LEMMA GoWritten ==
    ASSUME req \in [Requests -> Handlers], NEW r \in Requests, NEW pc \in Pcs, Go(r, pc)
    PROVE  /\ req' \in [Requests -> Handlers]
           /\ req'[r].pc = pc /\ req'[r].user = req[r].user
           /\ \A s \in Requests \ {r} : req'[s] = req[s]
  BY DEF Go, Handlers

(* Links taken from a single row lead into one conversation.                 *)
LEMMA LinksAgree ==
    ASSUME NEW rows, NEW links,
           \A s, t \in rows : s = t,
           \A t \in rows : \E r \in Requests : t = Chat(r),
           links \subseteq [user : Sides, topic : Topic],
           \A a \in links : \E t \in rows : a.topic = t[a.user]
    PROVE  \A a, b \in links : a.topic.by = b.topic.by /\ a.topic.side = a.user
<1> TAKE a, b \in links
<1>1. PICK t \in rows : a.topic = t[a.user]
  OBVIOUS
<1>2. b.topic = t[b.user]
  OBVIOUS
<1>3. PICK r \in Requests : t = Chat(r)
  OBVIOUS
<1>4. a.topic = Mine(r, a.user) /\ b.topic = Mine(r, b.user)
  BY <1>1, <1>2, <1>3, ChatType
<1>5. QED
  BY <1>4, MineType

(* What the invariant says of the types.                                     *)
LEMMA Types ==
    ASSUME ChatInv
    PROVE  /\ topics \subseteq Topic /\ leaked \subseteq Topic /\ row \subseteq Row
           /\ req \in [Requests -> Handlers]
           /\ settler \in [pc : {"idle", "read", "lessor", "lessee", "row", "done"},
                           row : SUBSET Row]
           /\ answered \subseteq [user : Sides, topic : Topic]
           /\ faults \in 0..MaxFaults
  BY DEF ChatInv, TypeOK, Handlers, Pcs, Finished

LEMMA TypesBack ==
    ASSUME topics' \subseteq Topic, leaked' \subseteq Topic, row' \subseteq Row,
           req' \in [Requests -> Handlers],
           settler' \in [pc : {"idle", "read", "lessor", "lessee", "row", "done"},
                         row : SUBSET Row],
           copying' \cup copied' \subseteq [from : Topic, to : Topic],
           answered' \subseteq [user : Sides, topic : Topic],
           broken' \in BOOLEAN, faults' \in 0..MaxFaults
    PROVE  TypeOK'
  BY DEF TypeOK, Handlers, Pcs, Finished

LEMMA ChatInit == Init => ChatInv
<1> SUFFICES ASSUME Init PROVE ChatInv
  OBVIOUS
<1>1. TypeOK
  <2>1. req \in [Requests -> [pc : {"start"}, user : Sides \cup {"stranger"},
                              cancelled : {FALSE}]]
    BY DEF Init
  <2>2. req \in [Requests -> Handlers]
    BY <2>1 DEF Handlers, Pcs
  <2>3. 0 \in 0..MaxFaults
    BY BoundsAssumption
  <2>4. QED
    BY <2>2, <2>3 DEF Init, TypeOK, NoRow, Handlers, Pcs, Finished
<1>2. \A r \in Requests : req[r].pc = "start"
  BY DEF Init
<1>3. settler.row = {} /\ row = {} /\ settler.pc = "idle"
  BY DEF Init, NoRow
<1>4. TopicsOf(row) \subseteq topics
  BY <1>3, TopicsOfIn
<1>5. QED
  BY <1>1, <1>2, <1>3, <1>4
  DEF Init, ChatInv, NoStrangers, RowsAreChats, WriterDone, CreatedIsThere, LinksFromRow,
      SettlerOwnsRow, TopicsOwned, CopiesPartner, OneConversation, RowHasTopics

-----------------------------------------------------------------------------
(* A handler.                                                                *)

LEMMA LookupKeeps ==
    ASSUME ChatInv, NEW r \in Requests, GetDealForumTopicByDealID(r)
    PROVE  ChatInv'
<1> USE DEF ChatInv
<1>1. /\ req \in [Requests -> Handlers] /\ answered \subseteq [user : Sides, topic : Topic]
      /\ faults \in 0..MaxFaults /\ row \subseteq Row
  BY Types
<1>2. PICK pc \in {"failed", "link", "lessor"} :
        Go(r, pc) /\ (req[r].user = "stranger" => pc = "failed")
  BY DEF GetDealForumTopicByDealID, Answer
<1>3. /\ req' \in [Requests -> Handlers] /\ req'[r].pc = pc /\ req'[r].user = req[r].user
      /\ \A s \in Requests \ {r} : req'[s] = req[s]
  BY <1>1, <1>2, GoWritten DEF Pcs
<1>4. UNCHANGED <<topics, row, settler, copying, copied, leaked, broken>> /\ req[r].pc = "start"
  BY DEF GetDealForumTopicByDealID, bot
<1>5. \/ answered' = answered
      \/ /\ settler.pc = "idle" /\ req[r].user \in Sides
         /\ \E t \in row : answered' = answered \cup {[user |-> req[r].user, topic |-> t[req[r].user]]}
  BY <1>1 DEF GetDealForumTopicByDealID, Answer, Handlers
<1>6. answered' \subseteq [user : Sides, topic : Topic]
  <2>1. \A t \in Row, side \in Sides : t[side] \in Topic
    BY DEF Row, Sides
  <2>2. QED
    BY <1>1, <1>5, <2>1
<1>7. TypeOK'
  <2>1. faults' \in 0..MaxFaults
    BY <1>1, FaultType DEF GetDealForumTopicByDealID
  <2>2. QED
    BY <1>3, <1>4, <1>6, <2>1, Types, TypesBack DEF TypeOK
<1>8. RowsAreChats'
  BY <1>3, <1>4 DEF RowsAreChats
<1>9. WriterDone' /\ CreatedIsThere' /\ TopicsOwned' /\ SettlerOwnsRow' /\ NoStrangers'
  <2>1. WriterDone'
    BY <1>3, <1>4 DEF WriterDone
  <2>2. CreatedIsThere'
    BY <1>3, <1>4 DEF CreatedIsThere
  <2>3. TopicsOwned'
    BY <1>1, <1>3, <1>4, Types DEF TopicsOwned, Topic
  <2>4. NoStrangers'
    BY <1>2, <1>3 DEF NoStrangers
  <2>5. QED
    BY <1>4, <2>1, <2>2, <2>3, <2>4 DEF SettlerOwnsRow
<1>10. LinksFromRow'
  BY <1>4, <1>5 DEF LinksFromRow
<1>11. OneConversation'
  <2>1. CASE answered' = answered
    BY <2>1 DEF OneConversation
  <2>2. CASE settler.pc = "idle"
    BY <1>4, <1>6, <1>8, <1>10, <2>2, LinksAgree DEF RowsAreChats, LinksFromRow, OneConversation
  <2>3. QED
    BY <1>5, <2>1, <2>2
<1>12. CopiesPartner' /\ RowHasTopics'
  BY <1>4 DEF CopiesPartner, RowHasTopics
<1>13. QED
  BY <1>7, <1>8, <1>9, <1>10, <1>11, <1>12
LEMMA CreateKeeps ==
    ASSUME ChatInv, NEW r \in Requests, CreateLessorTopic(r) \/ CreateLesseeTopic(r)
    PROVE  ChatInv'
<1> USE DEF ChatInv
<1>1. /\ req \in [Requests -> Handlers] /\ topics \subseteq Topic /\ leaked \subseteq Topic
      /\ faults \in 0..MaxFaults
  BY Types
<1>2. PICK side \in Sides, next \in Pcs, undo \in Pcs :
        /\ CreateForumTopic(r, side, next, undo)
        /\ \/ side = "lessor" /\ next = "lessee" /\ undo = "failed"
           \/ side = "lessee" /\ next = "insert" /\ undo = "undo_lessor"
  BY DEF CreateLessorTopic, CreateLesseeTopic, Sides, Pcs
<1> DEFINE mine == Mine(r, side)
<1>3. mine \in Topic /\ mine.by = r /\ mine.side = side
  BY MineType
<1>4. /\ UNCHANGED <<row, settler, copying, copied, answered, broken>>
      /\ req[r].pc = side /\ topics \subseteq topics' /\ topics' \subseteq topics \cup {mine}
      /\ leaked \subseteq leaked' /\ leaked' \subseteq leaked \cup {mine}
      /\ \/ Go(r, next) /\ mine \in topics'
         \/ Go(r, undo) /\ (topics' = topics \/ mine \in leaked')
  BY <1>2 DEF CreateForumTopic, bot
<1>5. PICK pc \in {next, undo} :
        /\ Go(r, pc)
        /\ pc = next => mine \in topics'
        /\ pc = undo => topics' = topics \/ mine \in leaked'
  BY <1>2, <1>4
<1>6. /\ req' \in [Requests -> Handlers] /\ req'[r].pc = pc /\ req'[r].user = req[r].user
      /\ \A s \in Requests \ {r} : req'[s] = req[s]
  BY <1>1, <1>2, <1>5, GoWritten
<1> HIDE DEF mine
<1>7. TypeOK'
  <2>1. faults' \in 0..MaxFaults
    BY <1>1, <1>2, FaultType DEF CreateForumTopic
  <2>2. QED
    BY <1>1, <1>3, <1>4, <1>6, <2>1, Types, TypesBack DEF TypeOK
<1>8. RowsAreChats'
  BY <1>2, <1>4, <1>6 DEF RowsAreChats
<1>9. WriterDone'
  BY <1>2, <1>4, <1>6 DEF WriterDone
<1>10. CreatedIsThere'
  <2>1. ASSUME NEW s \in Requests, s # r
        PROVE  /\ req'[s].pc \in {"lessee", "insert"} => Mine(s, "lessor") \in topics'
               /\ req'[s].pc = "insert" => Mine(s, "lessee") \in topics'
    BY <1>4, <1>6, <2>1 DEF CreatedIsThere
  <2>2. /\ req'[r].pc \in {"lessee", "insert"} => Mine(r, "lessor") \in topics'
        /\ req'[r].pc = "insert" => Mine(r, "lessee") \in topics'
    BY <1>2, <1>4, <1>5, <1>6 DEF CreatedIsThere, mine
  <2>3. QED
    BY <2>1, <2>2 DEF CreatedIsThere
<1>11. TopicsOwned'
  <2> SUFFICES ASSUME NEW t \in topics', t \notin TopicsOf(row), t \notin leaked'
      PROVE \/ /\ t.side = "lessor"
               /\ req'[t.by].pc \in {"lessee", "insert", "undo_both", "undo_lessor"}
            \/ t.side = "lessee" /\ req'[t.by].pc \in {"insert", "undo_both", "undo_lessee"}
    BY <1>4 DEF TopicsOwned
  <2>1. CASE t = mine /\ pc = next
    BY <1>2, <1>3, <1>6, <2>1
  <2>2. CASE t \in topics
    <3>1. t.by \in Requests
      BY <1>1, <2>2 DEF Topic
    <3>2. \/ /\ t.side = "lessor"
             /\ req[t.by].pc \in {"lessee", "insert", "undo_both", "undo_lessor"}
          \/ t.side = "lessee" /\ req[t.by].pc \in {"insert", "undo_both", "undo_lessee"}
      BY <1>4, <2>2 DEF TopicsOwned
    <3>3. QED
      BY <1>2, <1>4, <1>6, <3>1, <3>2
  <2>3. QED
    BY <1>4, <1>5, <2>1, <2>2
<1>12. SettlerOwnsRow'
  <2>1. ASSUME NEW t \in row PROVE mine # t.lessor /\ mine # t.lessee
    <3>1. PICK s \in Requests :
            t = Chat(s) /\ req[s].pc \notin {"start", "lessor", "lessee", "insert"}
      BY DEF RowsAreChats
    <3>2. s # r
      BY <1>2, <1>4, <3>1
    <3>3. t.lessor.by = s /\ t.lessee.by = s
      BY <3>1, ChatType, MineType DEF Sides
    <3>4. QED
      BY <1>3, <3>2, <3>3
  <2>2. QED
    BY <1>4, <2>1 DEF SettlerOwnsRow
<1>13. LinksFromRow' /\ CopiesPartner' /\ OneConversation' /\ RowHasTopics' /\ NoStrangers'
  BY <1>2, <1>4, <1>6
  DEF LinksFromRow, CopiesPartner, OneConversation, RowHasTopics, NoStrangers
<1>14. QED
  BY <1>7, <1>8, <1>9, <1>10, <1>11, <1>12, <1>13

LEMMA InsertKeeps ==
    ASSUME ChatInv, NEW r \in Requests, InsertDealForumTopic(r)
    PROVE  ChatInv'
<1> USE DEF ChatInv
<1>1. /\ req \in [Requests -> Handlers] /\ answered \subseteq [user : Sides, topic : Topic]
      /\ faults \in 0..MaxFaults /\ row \subseteq Row /\ topics \subseteq Topic
  BY Types
<1>2. req[r].pc = "insert" /\ UNCHANGED <<topics, settler, copying, copied, leaked>>
  BY DEF InsertDealForumTopic, bot
<1>3. Mine(r, "lessor") \in topics /\ Mine(r, "lessee") \in topics
  BY <1>2 DEF CreatedIsThere
<1>4. req[r].user \in Sides \cup {"stranger"}
  BY <1>1 DEF Handlers
<1>5. PICK pc \in {"link", "undo_both"} :
        /\ Go(r, pc)
        /\ \/ row' = row /\ answered' = answered /\ broken' = broken /\ pc = "undo_both"
           \/ /\ row = {} /\ row' = {Chat(r)} /\ broken' \in {broken, TRUE}
              /\ pc = "link" \/ broken'
              /\ \/ answered' = answered
                 \/ /\ settler.pc = "idle"
                    /\ answered' = answered \cup
                        {[user |-> req[r].user, topic |-> Chat(r)[req[r].user]]}
  BY DEF InsertDealForumTopic, Answer, NoRow
<1>6. /\ req' \in [Requests -> Handlers] /\ req'[r].pc = pc /\ req'[r].user = req[r].user
      /\ \A s \in Requests \ {r} : req'[s] = req[s]
  BY <1>1, <1>5, GoWritten DEF Pcs
<1>7. Chat(r) \in Row /\ Chat(r).lessor = Mine(r, "lessor") /\ Chat(r).lessee = Mine(r, "lessee")
  BY ChatType
<1>8. RowsAreChats'
  BY <1>2, <1>5, <1>6 DEF RowsAreChats
<1>9. WriterDone'
  <2>1. ASSUME NEW s \in Requests, Chat(s) \in row', s # r PROVE broken' \/ req'[s].pc = "link"
    <3>1. Chat(s) # Chat(r)
      BY <2>1, ChatUnique
    <3>2. row' = row /\ broken' = broken
      BY <1>5, <2>1, <3>1
    <3>3. QED
      BY <1>6, <2>1, <3>2 DEF WriterDone
  <2>2. ASSUME Chat(r) \in row' PROVE broken' \/ req'[r].pc = "link"
    <3>1. CASE row' = row /\ broken' = broken
      BY <1>2, <2>2, <3>1 DEF WriterDone
    <3>2. CASE pc = "link" \/ broken'
      BY <1>6, <3>2
    <3>3. QED
      BY <1>5, <3>1, <3>2
  <2>3. QED
    BY <2>1, <2>2 DEF WriterDone
<1>10. CreatedIsThere'
  BY <1>2, <1>5, <1>6 DEF CreatedIsThere
<1>11. TopicsOwned'
  <2> SUFFICES ASSUME NEW t \in topics, t \notin TopicsOf(row'), t \notin leaked
      PROVE \/ /\ t.side = "lessor"
               /\ req'[t.by].pc \in {"lessee", "insert", "undo_both", "undo_lessor"}
            \/ t.side = "lessee" /\ req'[t.by].pc \in {"insert", "undo_both", "undo_lessee"}
    BY <1>2 DEF TopicsOwned
  <2>1. t.by \in Requests /\ t.side \in Sides /\ t = Mine(t.by, t.side)
    BY <1>1 DEF Topic, Mine
  <2>2. t \notin TopicsOf(row)
    BY <1>5, TopicsOfIn
  <2>3. row' # row => t.by # r
    BY <1>5, <1>7, <2>1, TopicsOfIn DEF Sides
  <2>4. \/ /\ t.side = "lessor"
           /\ req[t.by].pc \in {"lessee", "insert", "undo_both", "undo_lessor"}
        \/ t.side = "lessee" /\ req[t.by].pc \in {"insert", "undo_both", "undo_lessee"}
    BY <2>2 DEF TopicsOwned
  <2>5. QED
    BY <1>2, <1>5, <1>6, <2>1, <2>3, <2>4
<1>12. SettlerOwnsRow'
  <2>1. CASE row' = row
    BY <1>2, <2>1 DEF SettlerOwnsRow
  <2>2. CASE row = {}
    BY <1>2, <2>2 DEF SettlerOwnsRow, NoRow
  <2>3. QED
    BY <1>5, <2>1, <2>2
<1>13. answered' \subseteq [user : Sides, topic : Topic] /\ LinksFromRow'
  <2>1. CASE answered' = answered /\ row' = row
    BY <1>1, <1>2, <2>1 DEF LinksFromRow
  <2>2. CASE row = {} /\ row' = {Chat(r)}
    <3>1. settler.pc = "idle" => answered = {}
      BY <2>2 DEF LinksFromRow
    <3>2. CASE answered' = answered
      BY <1>1, <1>2, <3>1, <3>2 DEF LinksFromRow
    <3>3. CASE /\ settler.pc = "idle"
               /\ answered' = {[user |-> req[r].user, topic |-> Chat(r)[req[r].user]]}
      <4>1. req[r].user \in Sides
        BY <1>2, <1>4 DEF NoStrangers
      <4>2. Chat(r)[req[r].user] \in Topic
        BY <4>1, ChatType, MineType
      <4>3. answered' \subseteq [user : Sides, topic : Topic]
        BY <3>3, <4>1, <4>2
      <4>4. QED
        BY <2>2, <3>3, <4>3 DEF LinksFromRow
    <3>4. QED
      BY <1>5, <2>2, <3>1, <3>2, <3>3
  <2>3. QED
    BY <1>5, <2>1, <2>2
<1>14. TypeOK'
  <2>1. faults' \in 0..MaxFaults
    BY <1>1, FaultType DEF InsertDealForumTopic
  <2>2. row' \subseteq Row
    BY <1>1, <1>5, <1>7
  <2>3. broken' \in BOOLEAN
    BY DEF InsertDealForumTopic, TypeOK
  <2>4. QED
    BY <1>2, <1>6, <1>13, <2>1, <2>2, <2>3, Types, TypesBack DEF TypeOK
<1>15. OneConversation'
  <2>1. CASE answered' = answered
    BY <2>1 DEF OneConversation
  <2>2. CASE settler.pc = "idle"
    BY <1>2, <1>8, <1>13, <2>2, LinksAgree DEF RowsAreChats, LinksFromRow, OneConversation
  <2>3. QED
    BY <1>5, <2>1, <2>2
<1>16. RowHasTopics'
  <2>1. CASE row' = row /\ broken' = broken
    BY <1>2, <2>1 DEF RowHasTopics
  <2>2. CASE row' = {Chat(r)}
    BY <1>2, <1>3, <1>7, <2>2, TopicsOfIn DEF RowHasTopics
  <2>3. QED
    BY <1>5, <2>1, <2>2
<1>17. CopiesPartner' /\ NoStrangers'
  BY <1>2, <1>5, <1>6 DEF CopiesPartner, NoStrangers
<1>18. QED
  BY <1>8, <1>9, <1>10, <1>11, <1>12, <1>13, <1>14, <1>15, <1>16, <1>17

(* A topic is deleted, or is nobody's.                                       *)
LEMMA DeleteEffect ==
    ASSUME NEW t \in Topic, NEW lives, DeleteForumTopic(t, lives),
           topics \subseteq Topic, leaked \subseteq Topic, faults \in 0..MaxFaults
    PROVE  /\ topics' \subseteq topics /\ topics \subseteq topics' \cup {t}
           /\ leaked \subseteq leaked' /\ leaked' \subseteq Topic
           /\ t \notin topics' \ leaked'
           /\ faults' \in 0..MaxFaults
  BY FaultType DEF DeleteForumTopic

LEMMA UndoKeeps ==
    ASSUME ChatInv, NEW r \in Requests, Undo(r)
    PROVE  ChatInv'
<1> USE DEF ChatInv
<1>1. /\ req \in [Requests -> Handlers] /\ topics \subseteq Topic /\ leaked \subseteq Topic
      /\ faults \in 0..MaxFaults
  BY Types
<1>2. PICK side \in Sides, pc \in Pcs :
        /\ DeleteForumTopic(Mine(r, side), Lives(r)) /\ Go(r, pc)
        /\ \/ req[r].pc = "undo_both" /\ side = "lessor" /\ pc = "undo_lessee"
           \/ req[r].pc = "undo_lessor" /\ side = "lessor" /\ pc = "failed"
           \/ req[r].pc = "undo_lessee" /\ side = "lessee" /\ pc = "failed"
  <2>1. CASE req[r].pc = "undo_both"
    BY <2>1 DEF Undo, Sides, Pcs
  <2>2. CASE req[r].pc = "undo_lessor"
    BY <2>2 DEF Undo, Sides, Pcs
  <2>3. CASE req[r].pc = "undo_lessee"
    BY <2>3 DEF Undo, Sides, Pcs
  <2>4. QED
    BY <2>1, <2>2, <2>3 DEF Undo
<1> DEFINE mine == Mine(r, side)
<1>3. mine \in Topic /\ mine.by = r /\ mine.side = side
  BY MineType
<1>4. /\ topics' \subseteq topics /\ topics \subseteq topics' \cup {mine}
      /\ leaked \subseteq leaked' /\ leaked' \subseteq Topic
      /\ mine \notin topics' \ leaked' /\ faults' \in 0..MaxFaults
  BY <1>1, <1>2, <1>3, DeleteEffect
<1>5. UNCHANGED <<row, settler, copying, copied, answered, broken>>
  BY DEF Undo, bot
<1>6. /\ req' \in [Requests -> Handlers] /\ req'[r].pc = pc /\ req'[r].user = req[r].user
      /\ \A s \in Requests \ {r} : req'[s] = req[s]
  BY <1>1, <1>2, GoWritten
<1> HIDE DEF mine
<1>7. TypeOK'
  BY <1>1, <1>4, <1>5, <1>6, Types, TypesBack DEF TypeOK
<1>8. RowsAreChats' /\ WriterDone' /\ NoStrangers'
  <2>1. RowsAreChats'
    BY <1>2, <1>5, <1>6 DEF RowsAreChats
  <2>2. WriterDone'
    BY <1>2, <1>5, <1>6 DEF WriterDone
  <2>3. QED
    BY <1>2, <1>6, <2>1, <2>2 DEF NoStrangers
<1>9. CreatedIsThere'
  <2> SUFFICES ASSUME NEW s \in Requests, req'[s].pc \in {"lessee", "insert"}
      PROVE  /\ Mine(s, "lessor") \in topics'
             /\ req'[s].pc = "insert" => Mine(s, "lessee") \in topics'
    BY DEF CreatedIsThere
  <2>1. s # r /\ req'[s] = req[s]
    BY <1>2, <1>6
  <2>2. Mine(s, "lessor").by = s /\ Mine(s, "lessee").by = s
    BY MineType DEF Sides
  <2>3. Mine(s, "lessor") # mine /\ Mine(s, "lessee") # mine
    BY <1>3, <2>1, <2>2
  <2>4. QED
    BY <1>4, <2>1, <2>3 DEF CreatedIsThere
<1>10. TopicsOwned'
  <2> SUFFICES ASSUME NEW t \in topics', t \notin TopicsOf(row), t \notin leaked'
      PROVE \/ /\ t.side = "lessor"
               /\ req'[t.by].pc \in {"lessee", "insert", "undo_both", "undo_lessor"}
            \/ t.side = "lessee" /\ req'[t.by].pc \in {"insert", "undo_both", "undo_lessee"}
    BY <1>5 DEF TopicsOwned
  <2>1. t \in topics /\ t # mine
    BY <1>4
  <2>2. t.by \in Requests /\ t.side \in Sides /\ (t.by = r => t.side # side)
    BY <1>1, <2>1 DEF Topic, Mine, mine
  <2>3. \/ /\ t.side = "lessor"
           /\ req[t.by].pc \in {"lessee", "insert", "undo_both", "undo_lessor"}
        \/ t.side = "lessee" /\ req[t.by].pc \in {"insert", "undo_both", "undo_lessee"}
    BY <1>4, <2>1 DEF TopicsOwned
  <2>4. QED
    BY <1>2, <1>6, <2>2, <2>3
<1>11. SettlerOwnsRow'
  BY <1>4, <1>5 DEF SettlerOwnsRow
<1>12. RowHasTopics'
  <2>1. CASE broken \/ row = settler.row
    BY <1>5, <2>1 DEF RowHasTopics
  <2>2. CASE ~broken /\ row # settler.row
    <3>1. TopicsOf(row) \subseteq topics
      BY <2>2 DEF RowHasTopics
    <3>2. ASSUME NEW t \in row PROVE mine # t.lessor /\ mine # t.lessee
      <4>1. PICK s \in Requests : t = Chat(s)
        BY DEF RowsAreChats
      <4>2. req[s].pc = "link"
        BY <2>2, <4>1 DEF WriterDone
      <4>3. s # r
        BY <1>2, <4>2
      <4>4. t.lessor.by = s /\ t.lessee.by = s
        BY <4>1, ChatType, MineType DEF Sides
      <4>5. QED
        BY <1>3, <4>3, <4>4
    <3>3. mine \notin TopicsOf(row)
      BY <3>2, TopicsOfIn
    <3>4. QED
      BY <1>4, <1>5, <3>1, <3>3 DEF RowHasTopics
  <2>3. QED
    BY <2>1, <2>2
<1>13. LinksFromRow' /\ CopiesPartner' /\ OneConversation'
  BY <1>5 DEF LinksFromRow, CopiesPartner, OneConversation
<1>14. QED
  BY <1>7, <1>8, <1>9, <1>10, <1>11, <1>12, <1>13

LEMMA CancelKeeps ==
    ASSUME ChatInv, NEW r \in Requests, Cancel(r)
    PROVE  ChatInv'
<1> USE DEF ChatInv
<1>1. req \in [Requests -> Handlers] /\ faults \in 0..MaxFaults
  BY Types
<1>2. UNCHANGED <<topics, row, settler, copying, copied, answered, leaked, broken>>
  BY DEF Cancel, bot, history
<1>3. req' \in [Requests -> Handlers]
  BY <1>1 DEF Cancel, Handlers
<1>4. \A s \in Requests : req'[s].pc = req[s].pc /\ req'[s].user = req[s].user
  BY <1>1 DEF Cancel, Handlers
<1>5. TypeOK'
  <2>1. faults' \in 0..MaxFaults
    BY <1>1, FaultType DEF Cancel
  <2>2. QED
    BY <1>2, <1>3, <2>1, Types, TypesBack DEF TypeOK
<1>6. RowsAreChats' /\ WriterDone' /\ CreatedIsThere' /\ NoStrangers'
  BY <1>2, <1>4 DEF RowsAreChats, WriterDone, CreatedIsThere, NoStrangers
<1>7. TopicsOwned'
  BY <1>2, <1>4, Types DEF TopicsOwned, Topic
<1>8. QED
  BY <1>2, <1>5, <1>6, <1>7
  DEF LinksFromRow, SettlerOwnsRow, CopiesPartner, OneConversation, RowHasTopics

(* What TopicsOwned spells out is what Holds names.                          *)
LEMMA HoldsMine ==
    ASSUME NEW r \in Requests
    PROVE  /\ req[r].pc \in {"lessee", "insert", "undo_both", "undo_lessor"}
                => Mine(r, "lessor") \in Holds(r)
           /\ req[r].pc \in {"insert", "undo_both", "undo_lessee"}
                => Mine(r, "lessee") \in Holds(r)
           /\ Holds(r) \subseteq Topic
<1>1. CASE req[r].pc \in {"lessee", "undo_lessor"}
  BY <1>1, MineType DEF Holds, Sides
<1>2. CASE req[r].pc \in {"insert", "undo_both"}
  BY <1>2, MineType DEF Holds, Sides
<1>3. CASE req[r].pc = "undo_lessee"
  BY <1>3, MineType DEF Holds, Sides
<1>4. CASE req[r].pc \notin {"lessee", "undo_lessor", "insert", "undo_both", "undo_lessee"}
  BY <1>4, MineType DEF Holds, Sides
<1>5. QED
  BY <1>1, <1>2, <1>3, <1>4

LEMMA CrashKeeps ==
    ASSUME ChatInv, NEW r \in Requests, CrashHandler(r)
    PROVE  ChatInv'
<1> USE DEF ChatInv
<1>1. /\ req \in [Requests -> Handlers] /\ topics \subseteq Topic /\ leaked \subseteq Topic
      /\ faults \in 0..MaxFaults
  BY Types
<1>2. /\ UNCHANGED <<topics, row, settler, copying, copied, answered, broken>>
      /\ leaked' = leaked \cup Holds(r) /\ Go(r, "failed")
      /\ req[r].pc \notin {"link", "failed"}
  BY DEF CrashHandler, bot, Finished
<1>3. /\ req' \in [Requests -> Handlers] /\ req'[r].pc = "failed"
      /\ \A s \in Requests \ {r} : req'[s] = req[s]
  BY <1>1, <1>2, GoWritten DEF Pcs
<1>4. TypeOK'
  <2>1. faults' \in 0..MaxFaults
    BY <1>1, FaultType DEF CrashHandler
  <2>2. leaked' \subseteq Topic
    BY <1>1, <1>2, HoldsMine
  <2>3. QED
    BY <1>2, <1>3, <2>1, <2>2, Types, TypesBack DEF TypeOK
<1>5. RowsAreChats' /\ WriterDone' /\ CreatedIsThere' /\ NoStrangers'
  <2>1. RowsAreChats'
    BY <1>2, <1>3 DEF RowsAreChats
  <2>2. WriterDone'
    BY <1>2, <1>3 DEF WriterDone
  <2>3. CreatedIsThere'
    BY <1>2, <1>3 DEF CreatedIsThere
  <2>4. QED
    BY <1>3, <2>1, <2>2, <2>3 DEF NoStrangers
<1>6. TopicsOwned'
  <2> SUFFICES ASSUME NEW t \in topics, t \notin TopicsOf(row), t \notin leaked'
      PROVE \/ /\ t.side = "lessor"
               /\ req'[t.by].pc \in {"lessee", "insert", "undo_both", "undo_lessor"}
            \/ t.side = "lessee" /\ req'[t.by].pc \in {"insert", "undo_both", "undo_lessee"}
    BY <1>2 DEF TopicsOwned
  <2>1. t.by \in Requests /\ t = Mine(t.by, t.side)
    BY <1>1 DEF Topic, Mine
  <2>2. \/ /\ t.side = "lessor"
           /\ req[t.by].pc \in {"lessee", "insert", "undo_both", "undo_lessor"}
        \/ t.side = "lessee" /\ req[t.by].pc \in {"insert", "undo_both", "undo_lessee"}
    BY <1>2 DEF TopicsOwned
  <2>3. t.by # r
    BY <1>2, <2>1, <2>2, HoldsMine
  <2>4. QED
    BY <1>3, <2>1, <2>2, <2>3
<1>7. SettlerOwnsRow'
  BY <1>2 DEF SettlerOwnsRow
<1>8. QED
  BY <1>2, <1>4, <1>5, <1>6, <1>7
  DEF LinksFromRow, CopiesPartner, OneConversation, RowHasTopics

-----------------------------------------------------------------------------
(* The settling worker.                                                      *)

LEMMA ConfirmKeeps ==
    ASSUME ChatInv, Confirm PROVE ChatInv'
<1> USE DEF ChatInv
<1>1. /\ UNCHANGED <<topics, row, req, copying, copied, answered, leaked, broken, faults>>
      /\ settler' \in [pc : {"read"}, row : SUBSET Row] /\ settler'.row = settler.row
  BY Types DEF Confirm, bot, history
<1>2. TypeOK'
  BY <1>1, Types, TypesBack DEF TypeOK
<1>3. QED
  BY <1>1, <1>2
  DEF RowsAreChats, WriterDone, CreatedIsThere, NoStrangers, LinksFromRow, SettlerOwnsRow,
      TopicsOwned, CopiesPartner, OneConversation, RowHasTopics

(* A step that leaves the row to the settling worker.                        *)
LEMMA SettlerAside ==
    ASSUME ChatInv, UNCHANGED <<row, req, copying, copied, answered, broken>>,
           topics' = topics, leaked \subseteq leaked', leaked' \subseteq Topic,
           settler' \in [pc : {"idle", "read", "lessor", "lessee", "row", "done"},
                         row : SUBSET Row],
           settler'.row = settler.row \/ settler'.row = row,
           settler'.pc # "idle", faults' \in 0..MaxFaults, SettlerOwnsRow'
    PROVE  ChatInv'
<1> USE DEF ChatInv
<1>1. TypeOK'
  BY Types, TypesBack DEF TypeOK
<1>2. RowsAreChats'
  BY DEF RowsAreChats
<1>3. RowHasTopics'
  BY DEF RowHasTopics
<1>4. TopicsOwned'
  BY DEF TopicsOwned
<1>5. QED
  BY <1>1, <1>2, <1>3, <1>4
  DEF WriterDone, CreatedIsThere, NoStrangers, LinksFromRow, CopiesPartner, OneConversation

LEMMA ReadKeeps ==
    ASSUME ChatInv, ReadChat PROVE ChatInv'
<1>1. /\ UNCHANGED <<topics, row, req, copying, copied, answered, broken>>
  BY DEF ReadChat, bot
<1>2. /\ topics \subseteq Topic /\ leaked \subseteq Topic /\ row \subseteq Row
      /\ settler \in [pc : {"idle", "read", "lessor", "lessee", "row", "done"},
                      row : SUBSET Row]
      /\ faults \in 0..MaxFaults
  BY Types
<1>3. TopicsOf(row) \subseteq Topic
  BY <1>2, TopicsOfIn DEF Row
<1>4. CASE /\ settler' = [pc |-> IF row = NoRow THEN "done" ELSE "lessor", row |-> row]
           /\ UNCHANGED <<leaked, faults>>
  <2>1. SettlerOwnsRow'
    BY <1>1, <1>4 DEF SettlerOwnsRow
  <2>2. QED
    BY <1>1, <1>2, <1>4, <2>1, SettlerAside
<1>5. CASE /\ Fault("select") /\ settler' = [settler EXCEPT !.pc = "done"]
           /\ leaked' = leaked \cup TopicsOf(row)
  <2>1. faults' \in 0..MaxFaults
    BY <1>2, <1>5, FaultType
  <2>2. SettlerOwnsRow'
    BY <1>2, <1>5 DEF SettlerOwnsRow
  <2>3. QED
    BY <1>1, <1>2, <1>3, <1>5, <2>1, <2>2, SettlerAside
<1>6. QED
  BY <1>4, <1>5 DEF ReadChat

LEMMA CrashSettlerKeeps ==
    ASSUME ChatInv, CrashSettler PROVE ChatInv'
<1>1. /\ topics \subseteq Topic /\ leaked \subseteq Topic
      /\ settler \in [pc : {"idle", "read", "lessor", "lessee", "row", "done"},
                      row : SUBSET Row]
      /\ faults \in 0..MaxFaults
  BY Types
<1>2. faults' \in 0..MaxFaults
  BY <1>1, FaultType DEF CrashSettler
<1>3. SettlerOwnsRow'
  BY <1>1 DEF CrashSettler, SettlerOwnsRow
<1>4. QED
  BY <1>1, <1>2, <1>3, SettlerAside DEF CrashSettler, bot

LEMMA DeleteTopicsKeeps ==
    ASSUME ChatInv, DeleteChatTopics PROVE ChatInv'
<1> USE DEF ChatInv
<1>1. /\ topics \subseteq Topic /\ leaked \subseteq Topic /\ row \subseteq Row
      /\ settler \in [pc : {"idle", "read", "lessor", "lessee", "row", "done"},
                      row : SUBSET Row]
      /\ faults \in 0..MaxFaults
  BY Types
<1>2. PICK side \in Sides, t \in settler.row :
        /\ settler.pc = side /\ DeleteForumTopic(t[side], TRUE)
        /\ settler' = [settler EXCEPT !.pc = IF side = "lessor" THEN "lessee" ELSE "row"]
  BY DEF DeleteChatTopics
<1>3. UNCHANGED <<row, req, copying, copied, answered, broken>>
  BY DEF DeleteChatTopics, bot
<1>4. PICK r \in Requests :
        t = Chat(r) /\ req[r].pc \notin {"start", "lessor", "lessee", "insert"}
  BY DEF RowsAreChats
<1> DEFINE gone == Mine(r, side)
<1>5. gone = t[side] /\ gone \in Topic /\ gone.by = r
      /\ t.lessor = Mine(r, "lessor") /\ t.lessee = Mine(r, "lessee")
  BY <1>4, ChatType, MineType
<1>6. /\ topics' \subseteq topics /\ topics \subseteq topics' \cup {gone}
      /\ leaked \subseteq leaked' /\ leaked' \subseteq Topic
      /\ gone \notin topics' \ leaked' /\ faults' \in 0..MaxFaults
  BY <1>1, <1>2, <1>5, DeleteEffect
<1>7. /\ row = settler.row /\ settler'.row = settler.row
      /\ settler' \in [pc : {"lessee", "row"}, row : SUBSET Row]
      /\ settler.pc = "lessor" => settler'.pc = "lessee"
      /\ settler.pc = "lessee" => settler'.pc = "row"
  BY <1>1, <1>2 DEF SettlerOwnsRow, Sides
<1>8. TypeOK'
  BY <1>1, <1>3, <1>6, <1>7, Types, TypesBack DEF TypeOK
<1>9. SettlerOwnsRow'
  <2>1. \A u \in row : u = t
    BY <1>7 DEF RowsAreChats
  <2>2. CASE side = "lessor"
    BY <1>2, <1>3, <1>5, <1>6, <1>7, <2>1, <2>2 DEF SettlerOwnsRow
  <2>3. CASE side = "lessee"
    BY <1>2, <1>3, <1>5, <1>6, <1>7, <2>1, <2>3 DEF SettlerOwnsRow
  <2>4. QED
    BY <2>2, <2>3 DEF Sides
<1>10. CreatedIsThere'
  <2> SUFFICES ASSUME NEW s \in Requests, req[s].pc \in {"lessee", "insert"}
      PROVE  /\ Mine(s, "lessor") \in topics'
             /\ req[s].pc = "insert" => Mine(s, "lessee") \in topics'
    BY <1>3 DEF CreatedIsThere
  <2>1. Mine(s, "lessor") # gone /\ Mine(s, "lessee") # gone
    BY <1>4, <1>5, MineType DEF Sides
  <2>2. QED
    BY <1>6, <2>1 DEF CreatedIsThere
<1>11. TopicsOwned'
  BY <1>3, <1>6 DEF TopicsOwned
<1>12. RowHasTopics'
  BY <1>3, <1>7 DEF RowHasTopics
<1>13. RowsAreChats'
  BY <1>3, <1>7 DEF RowsAreChats
<1>14. WriterDone' /\ NoStrangers' /\ LinksFromRow' /\ CopiesPartner' /\ OneConversation'
  BY <1>3, <1>7 DEF WriterDone, NoStrangers, LinksFromRow, CopiesPartner, OneConversation
<1>15. QED
  BY <1>8, <1>9, <1>10, <1>11, <1>12, <1>13, <1>14

LEMMA DeleteRowKeeps ==
    ASSUME ChatInv, DeleteRow PROVE ChatInv'
<1> USE DEF ChatInv
<1>1. /\ UNCHANGED <<topics, req, copying, copied, answered, leaked, broken>>
      /\ row' = row \/ row' = {}
      /\ settler.pc = "row"
  BY DEF DeleteRow, bot, history, NoRow
<1>2. /\ settler' \in [pc : {"done"}, row : SUBSET Row] /\ settler'.row = settler.row
      /\ row = settler.row /\ faults' \in 0..MaxFaults
  BY <1>1, Types, FaultType DEF DeleteRow, SettlerOwnsRow
<1>3. TypeOK'
  BY <1>1, <1>2, Types, TypesBack DEF TypeOK
<1>4. RowsAreChats' /\ WriterDone'
  BY <1>1, <1>2 DEF RowsAreChats, WriterDone
<1>5. TopicsOwned'
  <2>1. \A x \in TopicsOf(row) : x \notin topics \ leaked
    BY <1>1, TopicsOfIn DEF SettlerOwnsRow
  <2>2. QED
    BY <1>1, <2>1 DEF TopicsOwned
<1>6. RowHasTopics'
  <2>1. TopicsOf({}) = {}
    BY TopicsOfIn
  <2>2. QED
    BY <1>1, <1>2, <2>1 DEF RowHasTopics
<1>7. QED
  BY <1>1, <1>2, <1>3, <1>4, <1>5, <1>6
  DEF CreatedIsThere, NoStrangers, LinksFromRow, SettlerOwnsRow, CopiesPartner, OneConversation

-----------------------------------------------------------------------------
(* The bot.                                                                  *)

LEMMA MirrorKeeps ==
    ASSUME ChatInv, Mirror PROVE ChatInv'
<1> USE DEF ChatInv
<1>1. UNCHANGED <<topics, row, req, settler, answered, leaked, broken>>
  BY DEF Mirror, GetDealForumTopicByChatAndThread, CopyMessage, history
<1>2. CASE GetDealForumTopicByChatAndThread
  <2>1. PICK from \in topics, t \in row :
          /\ from \in TopicsOf(row)
          /\ copying' = copying \cup {[from |-> from, to |-> CopyTarget(from, t)]}
    BY <1>2 DEF GetDealForumTopicByChatAndThread
  <2>2. PICK r \in Requests : t = Chat(r)
    BY DEF RowsAreChats
  <2>3. from = t.lessor \/ from = t.lessee
    BY <2>1, TopicsOfIn DEF RowsAreChats
  <2>4. /\ t.lessor = Mine(r, "lessor") /\ t.lessee = Mine(r, "lessee")
        /\ t.lessor \in Topic /\ t.lessor.by = r /\ t.lessor.side = "lessor"
        /\ t.lessee \in Topic /\ t.lessee.by = r /\ t.lessee.side = "lessee"
    BY <2>2, ChatType, MineType DEF Sides
  <2>5. /\ CopyTarget(from, t) \in Topic /\ from \in Topic
        /\ CopyTarget(from, t).by = from.by
        /\ CopyTarget(from, t).side = Other(from.side)
    BY <2>3, <2>4 DEF CopyTarget, Other
  <2>6. CopiesPartner'
    BY <1>2, <2>1, <2>5 DEF GetDealForumTopicByChatAndThread, CopiesPartner
  <2>7. TypeOK'
    BY <1>1, <1>2, <2>1, <2>5 DEF GetDealForumTopicByChatAndThread, TypeOK
  <2>8. QED
    BY <1>1, <2>6, <2>7
    DEF RowsAreChats, WriterDone, CreatedIsThere, NoStrangers, LinksFromRow,
        SettlerOwnsRow, TopicsOwned, OneConversation, RowHasTopics
<1>3. CASE CopyMessage
  <2>1. copying' \cup copied' \subseteq copying \cup copied
    BY <1>3 DEF CopyMessage
  <2>2. faults' \in 0..MaxFaults
    BY <1>3, FaultType, Types DEF CopyMessage
  <2>3. CopiesPartner'
    BY <2>1 DEF CopiesPartner
  <2>4. TypeOK'
    BY <1>1, <2>1, <2>2 DEF TypeOK
  <2>5. QED
    BY <1>1, <2>3, <2>4
    DEF RowsAreChats, WriterDone, CreatedIsThere, NoStrangers, LinksFromRow,
        SettlerOwnsRow, TopicsOwned, OneConversation, RowHasTopics
<1>4. QED
  BY <1>2, <1>3 DEF Mirror

-----------------------------------------------------------------------------
LEMMA ChatNext == ChatInv /\ [Next]_vars => ChatInv'
<1> SUFFICES ASSUME ChatInv, [Next]_vars PROVE ChatInv'
  OBVIOUS
<1>1. CASE UNCHANGED vars
  BY <1>1
  DEF vars, bot, history, ChatInv, TypeOK, RowsAreChats, WriterDone, CreatedIsThere,
      NoStrangers, LinksFromRow, SettlerOwnsRow, TopicsOwned, CopiesPartner,
      OneConversation, RowHasTopics
<1>2. ASSUME NEW r \in Requests, Handler(r) PROVE ChatInv'
  BY <1>2, LookupKeeps, CreateKeeps, InsertKeeps, UndoKeeps DEF Handler
<1>3. CASE Settle
  BY <1>3, ReadKeeps, DeleteTopicsKeeps, DeleteRowKeeps DEF Settle
<1>4. QED
  BY <1>1, <1>2, <1>3, CancelKeeps, CrashKeeps, ConfirmKeeps, CrashSettlerKeeps,
     MirrorKeeps DEF Next

LEMMA ChatInvariant == Spec => []ChatInv
  BY ChatInit, ChatNext, PTL DEF Spec

(* However many requests of both sides run at once, and whatever fails: the   *)
(* links given before the deal ends lead into one conversation.               *)
THEOREM OneConversationTheorem == Spec => []OneConversation
<1>1. ChatInv => OneConversation
  BY DEF ChatInv
<1>2. QED
  BY <1>1, ChatInvariant, PTL

(* The topics of the row exist until the settling worker has read the row,    *)
(* save when an insert reported an error for a row that was written.          *)
THEOREM RowHasTopicsTheorem == Spec => []RowHasTopics
<1>1. ChatInv => RowHasTopics
  BY DEF ChatInv
<1>2. QED
  BY <1>1, ChatInvariant, PTL

(* Every topic is the row's, a running handler's or one a fault left: losing  *)
(* the race for the row leaves nothing behind, however many take part in it.  *)
THEOREM NoStrayTopicTheorem == Spec => []NoStrayTopic
<1>1. ASSUME ChatInv, NEW t \in topics, t \notin TopicsOf(row) \cup leaked
      PROVE  t \in UNION {Holds(r) : r \in Requests}
  <2>1. t.by \in Requests /\ t = Mine(t.by, t.side)
    BY <1>1, Types DEF Topic, Mine
  <2>2. \/ /\ t.side = "lessor"
           /\ req[t.by].pc \in {"lessee", "insert", "undo_both", "undo_lessor"}
        \/ t.side = "lessee" /\ req[t.by].pc \in {"insert", "undo_both", "undo_lessee"}
    BY <1>1 DEF ChatInv, TopicsOwned
  <2>3. t \in Holds(t.by)
    BY <2>1, <2>2, HoldsMine
  <2>4. QED
    BY <2>1, <2>3
<1>2. ChatInv => NoStrayTopic
  BY <1>1 DEF NoStrayTopic
<1>3. QED
  BY <1>2, ChatInvariant, PTL

(* However the row changes between reading it and copying: a message goes to  *)
(* the other side's topic of the conversation it was written in.              *)
THEOREM MirroredToPartnerTheorem == Spec => []MirroredToPartner
<1>1. ChatInv => MirroredToPartner
  BY DEF ChatInv, CopiesPartner, MirroredToPartner
<1>2. QED
  BY <1>1, ChatInvariant, PTL
=============================================================================
