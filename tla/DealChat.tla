------------------------------- MODULE DealChat -------------------------------
(***************************************************************************)
(* The chat of a deal: a forum topic in the chat the bot has with each     *)
(* side, and a row that pairs the two.  Either side's request creates the  *)
(* chat when there is none, handlers of several requests run at once, and  *)
(* the primary key of the row is all that decides between them.  When the  *)
(* escrow is settled the market deletes topics and row; the bot copies     *)
(* each message written in one topic to the other.                         *)
(*                                                                         *)
(* A handler works under the context of its HTTP request: when the client  *)
(* goes away every further call fails, those that clean up included.       *)
(***************************************************************************)
EXTENDS Naturals, FiniteSets

CONSTANTS
    Requests,   \* requests for the link of the chat
    MaxCopies,  \* bound: messages the bot mirrors
    Faults,     \* the kinds of faults that may happen
    MaxFaults   \* bound: faults in a behaviour

FaultKinds ==
    {"crash",     \* a handler or the settling worker stops for good
     "cancel",    \* the client of a request goes away
     "create",    \* createForumTopic fails
     "ambiguous", \* createForumTopic reports an error for what it has done
     "delete",    \* deleteForumTopic fails
     "copy",      \* copyMessage fails
     "select",    \* the row cannot be read
     "insert",    \* the row is not written
     "commit",    \* the row is written and an error reported
     "remove"}    \* the row is not deleted

ASSUME RequestsAssumption == IsFiniteSet(Requests)
ASSUME BoundsAssumption == MaxCopies \in Nat /\ MaxFaults \in Nat
ASSUME FaultsAssumption == Faults \subseteq FaultKinds

Sides == {"lessor", "lessee"}
Other(side) == IF side = "lessor" THEN "lessee" ELSE "lessor"

(* A topic is known by the request that created it and the side it is for.   *)
Topic == [by : Requests, side : Sides]
Row == [lessor : Topic, lessee : Topic]
NoRow == {}
TopicsOf(S) == UNION {{t.lessor, t.lessee} : t \in S}

VARIABLES
    topics,   \* the topics Telegram has
    row,      \* market.deal_forum_topic: the row of the deal, if there is one
    req,      \* handlers: where each is, who asks, and the link it answered
    settler,  \* the settling worker, and the row it has read
    copying,  \* the copies the bot is about to make, from topic to topic
    copied,   \* history: the copies it has made
    answered, \* history: the row behind each link given before the deal ended
    leaked,   \* history: topics a fault left without anyone to delete them
    broken,   \* history: a handler deletes the topics of a row it has written
    faults    \* faults so far

bot == <<copying, copied>>
history == <<answered, leaked, broken>>
vars == <<topics, row, req, settler, bot, history, faults>>

-----------------------------------------------------------------------------
Init ==
    /\ topics = {} /\ row = NoRow
    /\ req \in [Requests -> [pc : {"start"}, user : Sides \cup {"stranger"},
                             cancelled : {FALSE}]]
    /\ settler = [pc |-> "idle", row |-> NoRow]
    /\ copying = {} /\ copied = {}
    /\ answered = {} /\ leaked = {} /\ broken = FALSE /\ faults = 0

Fault(f) == f \in Faults /\ faults < MaxFaults /\ faults' = faults + 1

Mine(r, side) == [by |-> r, side |-> side]
Chat(r) == [lessor |-> Mine(r, "lessor"), lessee |-> Mine(r, "lessee")]
Go(r, pc) == req' = [req EXCEPT ![r].pc = pc]

(* chatLinkForUser.  Links given after the deal has ended are not compared.  *)
Answer(r, t) ==
    /\ Go(r, "link")
    /\ answered' = IF settler.pc = "idle"
                   THEN answered \cup {[user |-> req[r].user, topic |-> t[req[r].user]]}
                   ELSE answered

(* A call to Telegram or the database under the request's context.           *)
Lives(r) == ~req[r].cancelled

-----------------------------------------------------------------------------
(* GetOrCreateDealForumChat: neither side, no chance; a row is the answer.   *)
GetDealForumTopicByDealID(r) ==
    /\ req[r].pc = "start"
    /\ \/ /\ req[r].user = "stranger" \/ ~Lives(r)
          /\ Go(r, "failed") /\ UNCHANGED <<answered, faults>>
       \/ /\ req[r].user # "stranger" /\ Lives(r) /\ Fault("select")
          /\ Go(r, "failed") /\ UNCHANGED answered
       \/ /\ req[r].user # "stranger" /\ Lives(r)
          /\ \E t \in row : Answer(r, t)
          /\ UNCHANGED faults
       \/ /\ req[r].user # "stranger" /\ Lives(r) /\ row = NoRow
          /\ Go(r, "lessor") /\ UNCHANGED <<answered, faults>>
    /\ UNCHANGED <<topics, row, settler, bot, leaked, broken>>

(* CreateForumTopic, first for the lessor.  Without an answer the handler    *)
(* does not know the topic it may have created.                              *)
CreateForumTopic(r, side, next, undo) ==
    /\ req[r].pc = side
    /\ \/ /\ Lives(r)
          /\ topics' = topics \cup {Mine(r, side)}
          /\ Go(r, next) /\ UNCHANGED <<leaked, faults>>
       \/ /\ ~Lives(r)
          /\ Go(r, undo) /\ UNCHANGED <<topics, leaked, faults>>
       \/ /\ Lives(r) /\ Fault("create")
          /\ Go(r, undo) /\ UNCHANGED <<topics, leaked>>
       \/ /\ Lives(r) /\ Fault("ambiguous")
          /\ topics' = topics \cup {Mine(r, side)}
          /\ leaked' = leaked \cup {Mine(r, side)}
          /\ Go(r, undo)
    /\ UNCHANGED <<row, settler, bot, answered, broken>>

CreateLessorTopic(r) == CreateForumTopic(r, "lessor", "lessee", "failed")
CreateLesseeTopic(r) == CreateForumTopic(r, "lessee", "insert", "undo_lessor")

(* Mutant: a row that is there already counts as success.                    *)
InsertDealForumTopicOnConflict(r) ==
    /\ req[r].pc = "insert" /\ Lives(r)
    /\ row' = IF row = NoRow THEN {Chat(r)} ELSE row
    /\ Answer(r, Chat(r))
    /\ UNCHANGED <<topics, settler, bot, leaked, broken, faults>>

(* InsertDealForumTopic: the primary key refuses a second row of the deal.   *)
InsertDealForumTopic(r) ==
    /\ req[r].pc = "insert"
    /\ \/ /\ Lives(r) /\ row = NoRow
          /\ row' = {Chat(r)} /\ Answer(r, Chat(r)) /\ UNCHANGED <<broken, faults>>
       \/ /\ ~Lives(r) \/ row # NoRow
          /\ Go(r, "undo_both") /\ UNCHANGED <<row, answered, broken, faults>>
       \/ /\ Lives(r) /\ Fault("insert")
          /\ Go(r, "undo_both") /\ UNCHANGED <<row, answered, broken>>
       \/ /\ Lives(r) /\ row = NoRow /\ Fault("commit")
          /\ row' = {Chat(r)} /\ Go(r, "undo_both") /\ broken' = TRUE
          /\ UNCHANGED answered
    /\ UNCHANGED <<topics, settler, bot, leaked>>

(* DeleteForumTopic, its error ignored: gone, or nobody's.                   *)
DeleteForumTopic(t, lives) ==
    \/ /\ lives
       /\ topics' = topics \ {t} /\ UNCHANGED <<leaked, faults>>
    \/ /\ ~lives
       /\ leaked' = leaked \cup {t} /\ UNCHANGED <<topics, faults>>
    \/ /\ lives /\ t \in topics /\ Fault("delete")
       /\ leaked' = leaked \cup {t} /\ UNCHANGED topics

(* Mutant: only the topic created last is taken back.                        *)
UndoLessee(r) ==
    /\ \/ req[r].pc = "undo_both" /\ DeleteForumTopic(Mine(r, "lessee"), Lives(r))
       \/ req[r].pc = "undo_lessor" /\ DeleteForumTopic(Mine(r, "lessor"), Lives(r))
    /\ Go(r, "failed")
    /\ UNCHANGED <<row, settler, bot, answered, broken>>

(* Mutant: every topic of the deal is deleted, those of the row too.         *)
UndoRow(r) ==
    /\ req[r].pc \in {"undo_both", "undo_lessor"}
    /\ topics' = topics \ (TopicsOf(row) \cup {Mine(r, side) : side \in Sides})
    /\ Go(r, "failed")
    /\ UNCHANGED <<row, settler, bot, history, faults>>

(* What the handler created it deletes when it cannot finish.                *)
Undo(r) ==
    /\ \/ /\ req[r].pc = "undo_both"
          /\ DeleteForumTopic(Mine(r, "lessor"), Lives(r)) /\ Go(r, "undo_lessee")
       \/ /\ req[r].pc \in {"undo_lessor", "undo_lessee"}
          /\ \E side \in Sides :
                /\ req[r].pc = IF side = "lessor" THEN "undo_lessor" ELSE "undo_lessee"
                /\ DeleteForumTopic(Mine(r, side), Lives(r))
          /\ Go(r, "failed")
    /\ UNCHANGED <<row, settler, bot, answered, broken>>

Finished == {"link", "failed"}

(* The client of a request goes away.                                        *)
Cancel(r) ==
    /\ req[r].pc \notin Finished /\ Lives(r) /\ Fault("cancel")
    /\ req' = [req EXCEPT ![r].cancelled = TRUE]
    /\ UNCHANGED <<topics, row, settler, bot, history>>

(* The topics a handler has created and neither deleted nor recorded.        *)
Holds(r) ==
    {Mine(r, side) : side \in
        CASE req[r].pc \in {"lessee", "undo_lessor"} -> {"lessor"}
          [] req[r].pc \in {"insert", "undo_both"}   -> Sides
          [] req[r].pc = "undo_lessee"               -> {"lessee"}
          [] OTHER                                   -> {}}

CrashHandler(r) ==
    /\ req[r].pc \notin Finished /\ Fault("crash")
    /\ leaked' = leaked \cup Holds(r)
    /\ Go(r, "failed")
    /\ UNCHANGED <<topics, row, settler, bot, answered, broken>>

-----------------------------------------------------------------------------
(* releaseOrRefund has confirmed the settlement, which no worker does twice. *)
Confirm ==
    /\ settler.pc = "idle"
    /\ settler' = [settler EXCEPT !.pc = "read"]
    /\ UNCHANGED <<topics, row, req, bot, history, faults>>

(* Mutant: a chat that is found is taken for none.                           *)
ReadChatInverted ==
    /\ settler.pc = "read"
    /\ settler' = [pc |-> IF row = NoRow THEN "lessor" ELSE "done", row |-> row]
    /\ UNCHANGED <<topics, row, req, bot, history, faults>>

(* DeleteDealForumTopic.                                                     *)
ReadChat ==
    /\ settler.pc = "read"
    /\ \/ /\ settler' = [pc |-> IF row = NoRow THEN "done" ELSE "lessor", row |-> row]
          /\ UNCHANGED <<leaked, faults>>
       \/ /\ Fault("select")
          /\ settler' = [settler EXCEPT !.pc = "done"]
          /\ leaked' = leaked \cup TopicsOf(row)
    /\ UNCHANGED <<topics, row, req, bot, answered, broken>>

DeleteChatTopics ==
    /\ \E side \in Sides :
        /\ settler.pc = side
        /\ \E t \in settler.row : DeleteForumTopic(t[side], TRUE)
        /\ settler' = [settler EXCEPT !.pc = IF side = "lessor" THEN "lessee" ELSE "row"]
    /\ UNCHANGED <<row, req, bot, answered, broken>>

DeleteRow ==
    /\ settler.pc = "row"
    /\ settler' = [settler EXCEPT !.pc = "done"]
    /\ \/ row' = NoRow /\ UNCHANGED faults
       \/ Fault("remove") /\ UNCHANGED row
    /\ UNCHANGED <<topics, req, bot, history>>

(* The deal has its final status: no worker comes back to it.                *)
CrashSettler ==
    /\ settler.pc \notin {"idle", "done"} /\ Fault("crash")
    /\ settler' = [settler EXCEPT !.pc = "done"]
    /\ leaked' = leaked \cup (topics \cap TopicsOf(row))
    /\ UNCHANGED <<topics, row, req, bot, answered, broken>>

-----------------------------------------------------------------------------
(* Mutant: the row is taken for the lessor's side whoever wrote.             *)
CopyTargetLessee(from, t) == t.lessee

(* CopyMessageToOtherTopic: the side whose chat and thread the message is in.*)
CopyTarget(from, t) == IF t.lessor = from THEN t.lessee ELSE t.lessor

(* processUpdate of the bot: a message is written in a topic that exists;    *)
(* in a topic that no row names it stays where it is.                        *)
GetDealForumTopicByChatAndThread ==
    /\ Cardinality(copied \cup copying) < MaxCopies
    /\ \E from \in topics, t \in row :
        /\ from \in TopicsOf(row)
        /\ copying' = copying \cup {[from |-> from, to |-> CopyTarget(from, t)]}
    /\ UNCHANGED <<topics, row, req, settler, copied, history, faults>>

(* copyMessage; into a topic that is gone nothing is copied, and the error   *)
(* is logged, no more.                                                       *)
CopyMessage ==
    /\ \E c \in copying :
        /\ copying' = copying \ {c}
        /\ \/ c.to \in topics /\ copied' = copied \cup {c} /\ UNCHANGED faults
           \/ c.to \notin topics /\ UNCHANGED <<copied, faults>>
           \/ c.to \in topics /\ Fault("copy") /\ UNCHANGED copied
    /\ UNCHANGED <<topics, row, req, settler, history>>

-----------------------------------------------------------------------------
Handler(r) ==
    \/ GetDealForumTopicByDealID(r) \/ CreateLessorTopic(r) \/ CreateLesseeTopic(r)
    \/ InsertDealForumTopic(r) \/ Undo(r)

Settle == ReadChat \/ DeleteChatTopics \/ DeleteRow

Mirror == GetDealForumTopicByChatAndThread \/ CopyMessage

Next ==
    \/ \E r \in Requests : Handler(r) \/ Cancel(r) \/ CrashHandler(r)
    \/ Confirm \/ Settle \/ CrashSettler \/ Mirror

Spec == Init /\ [][Next]_vars

(* A handler or a worker goes on unless it crashes: each of its calls ends.  *)
FairSpec ==
    /\ Spec
    /\ WF_vars(Settle)
    /\ \A r \in Requests : WF_vars(Handler(r))

-----------------------------------------------------------------------------
TypeOK ==
    /\ topics \subseteq Topic /\ leaked \subseteq Topic /\ row \subseteq Row
    /\ req \in [Requests -> [pc : {"start", "lessor", "lessee", "insert", "undo_both",
                                    "undo_lessor", "undo_lessee"} \cup Finished,
                             user : Sides \cup {"stranger"}, cancelled : BOOLEAN]]
    /\ settler \in [pc : {"idle", "read", "lessor", "lessee", "row", "done"},
                    row : SUBSET Row]
    /\ copying \cup copied \subseteq [from : Topic, to : Topic]
    /\ answered \subseteq [user : Sides, topic : Topic]
    /\ broken \in BOOLEAN /\ faults \in 0..MaxFaults

(* However requests interleave, all the links given before the deal ends     *)
(* lead into one conversation, each user's into the topic on his own side.   *)
OneConversation ==
    \A a, b \in answered : a.topic.by = b.topic.by /\ a.topic.side = a.user

(* A link goes on working: the topics of the row are there until the worker  *)
(* that settles the deal has read it, unless its insert reported an error    *)
(* for a row that was written.                                               *)
RowHasTopics ==
    \/ TopicsOf(row) \subseteq topics
    \/ row = settler.row
    \/ broken

(* No topic is forgotten: the row names it, or a handler that goes on will   *)
(* record or delete it, or a fault took its owner away.  Losing the race for *)
(* the row leaves nothing behind.                                            *)
NoStrayTopic ==
    topics \subseteq
        TopicsOf(row) \cup (UNION {Holds(r) : r \in Requests}) \cup leaked

(* A message is only ever copied to the other side's topic of the same       *)
(* conversation, whatever happened to the row since the bot read it.         *)
MirroredToPartner ==
    \A c \in copied : c.from.by = c.to.by /\ c.to.side = Other(c.from.side)

(* The topics of the chat the deal has when it is settled are deleted in the *)
(* end, unless a fault leaves them.  A chat asked for later stays.           *)
ChatClosed ==
    \A t \in Topic :
        (settler.pc = "read" /\ t \in TopicsOf(row)) ~> (t \notin topics \/ t \in leaked)
-----------------------------------------------------------------------------
(* The inductive invariant behind the theorems of DealChatProofs.            *)

(* The deal has at most one row, and a row is what one handler created.      *)
RowsAreChats ==
    /\ \A t \in row \cup settler.row : \E r \in Requests :
        t = Chat(r) /\ req[r].pc \notin {"start", "lessor", "lessee", "insert"}
    /\ \A s, t \in row : s = t
    /\ \A s, t \in settler.row : s = t

(* A request of neither side gets no further than the check of the user.     *)
NoStrangers ==
    \A r \in Requests : req[r].user = "stranger" => req[r].pc \in {"start", "failed"}

(* The handler that wrote the row has answered and leaves its topics alone.  *)
WriterDone == \A r \in Requests : Chat(r) \in row => broken \/ req[r].pc = "link"

(* Nobody else deletes what a handler has created and not recorded yet.      *)
CreatedIsThere ==
    \A r \in Requests :
        /\ req[r].pc \in {"lessee", "insert"} => Mine(r, "lessor") \in topics
        /\ req[r].pc = "insert" => Mine(r, "lessee") \in topics

(* Before the deal ends the row stays, and every link was taken from it.     *)
LinksFromRow ==
    settler.pc = "idle" => \A a \in answered : \E t \in row : a.topic = t[a.user]

(* The row the settling worker has read stays as well while it deletes the   *)
(* topics one by one.                                                        *)
SettlerOwnsRow ==
    settler.pc \in {"lessor", "lessee", "row"} =>
        /\ row = settler.row /\ row # NoRow
        /\ \A t \in row :
            /\ settler.pc \in {"lessee", "row"} => t.lessor \notin topics \ leaked
            /\ settler.pc = "row" => t.lessee \notin topics \ leaked

CopiesPartner ==
    \A c \in copying \cup copied : c.from.by = c.to.by /\ c.to.side = Other(c.from.side)

(* NoStrayTopic, with the steps at which a handler holds a topic spelt out.  *)
TopicsOwned ==
    \A t \in topics :
        \/ t \in TopicsOf(row) \cup leaked
        \/ t.side = "lessor" /\ req[t.by].pc \in {"lessee", "insert", "undo_both", "undo_lessor"}
        \/ t.side = "lessee" /\ req[t.by].pc \in {"insert", "undo_both", "undo_lessee"}

ChatInv ==
    /\ TypeOK /\ NoStrangers /\ RowsAreChats /\ WriterDone /\ CreatedIsThere /\ LinksFromRow
    /\ SettlerOwnsRow /\ TopicsOwned /\ CopiesPartner /\ OneConversation /\ RowHasTopics
=============================================================================
