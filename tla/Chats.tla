------------------------------- MODULE Chats -------------------------------
(***************************************************************************)
(* LM Chats, what staff write to each other: src/services/chats.ts with    *)
(* the rules of src/domain/chats.ts, the streams of                        *)
(* src/services/realtime.ts and the tables of migrations 0022 and 0023.    *)
(*                                                                         *)
(* One Community group, one other group, and the direct chats.  A request  *)
(* checks membership and permission first and writes afterwards.  A        *)
(* message carries the time its transaction began, and a person's read     *)
(* mark the time of the request that moved it; both are read from one      *)
(* clock that moves whenever it is read.                                   *)
(***************************************************************************)
EXTENDS Integers, FiniteSets, FiniteSetsExt

CONSTANTS
  People,
  Messages,       \* bound: messages ever written
  Pictures,       \* bound: pictures ever stored
  Requests,       \* bound: requests at the same time
  MaxAsked,       \* bound: requests in all
  Community, Group,
  Nobody

Directs == {pair \in SUBSET People : Cardinality(pair) = 2}
Rooms == {Community, Group}
Conversations == Rooms \cup Directs

(* The rows of the tables, and none of them is Nobody.                     *)
ChatRow == [archived : BOOLEAN, everyone : BOOLEAN]
MemberRow == [read : Nat, muted : BOOLEAN]
MessageRow ==
  [conv : Conversations, sender : People, at : Nat, text : BOOLEAN, file : BOOLEAN,
   deleted : BOOLEAN]

ChatsAssumption ==
  /\ MaxAsked \in Nat /\ Community # Group /\ \A room \in Rooms, pair \in Directs : room # pair
  /\ Nobody \notin ChatRow \cup MemberRow \cup MessageRow \cup Pictures

VARIABLES
  active,         \* accounts in use
  admins,         \* accounts with chat.admin
  chat,           \* chat[c]: the conversation, or Nobody
  member,         \* member[c][u]: u's row in chat_members, or Nobody
  message,        \* message[m]: the committed message, or Nobody
  objects,        \* messages whose attachment is in storage
  photo,          \* photo_key of one group or one person, or Nobody
  pictures,       \* pictures[p]: "unwritten", "stored" or "removed"; a key is never used twice
  tabs,           \* accounts with an event stream the process counts as open
  bell,           \* bell[c]: accounts with an unread notification of c
  asked,          \* asked[r]: the request under way
  clock,
  count,          \* requests so far
  seen,           \* ghost: seen[u], messages that were there when u last marked them read
  blurred,        \* ghost: <<u, m>> where u's read mark and m's time do not tell what u saw
  served,         \* ghost: served[m], members whose turn to be told of m is over
  stranded        \* ghost: the group's last admin went by a way nothing guards

chatVars == <<active, admins, chat, member, message, objects, photo, pictures, tabs, bell, asked,
              clock, count, seen, blurred, served, stranded>>

NoRequest == [kind |-> "idle"]
Row == [read |-> 0, muted |-> FALSE]
IsMember(u, c) == member[c][u] # Nobody
Members(c) == {u \in People : IsMember(u, c)}
Live(c) == chat[c] # Nobody /\ ~chat[c].archived

-----------------------------------------------------------------------------
(* src/domain/chats.ts.                                                    *)

CanOpenDirect(u, v) == u # v /\ (u \in admins \/ v \in admins)
CanPost(u, c) == c \notin Rooms \/ chat[c].everyone \/ u \in admins
CanManage(u, c) == c \in Rooms /\ u \in admins
CanLeave(c) == c = Group

(* amendRefusal: only one's own, and only what is not deleted.  Whether the *)
(* nineteen minutes are over is left open: a request may always be refused. *)
CanAmend(u, m) == message[m].sender = u /\ ~message[m].deleted

-----------------------------------------------------------------------------
Init ==
  /\ active = People /\ admins \in SUBSET People /\ admins # {}
  /\ chat = [c \in Conversations |->
               IF c = Community THEN [archived |-> FALSE, everyone |-> FALSE] ELSE Nobody]
  /\ member = [c \in Conversations |-> [u \in People |-> IF c = Community THEN Row ELSE Nobody]]
  /\ message = [m \in Messages |-> Nobody]
  /\ objects = {} /\ photo = Nobody /\ tabs \in SUBSET People
  /\ pictures = [p \in Pictures |-> "unwritten"]
  /\ bell = [c \in Conversations |-> {}]
  /\ asked = [r \in Requests |-> NoRequest]
  /\ clock = 0 /\ count = 0
  /\ seen = [u \in People |-> {}] /\ blurred = {}
  /\ served = [m \in Messages |-> {}] /\ stranded = FALSE

Ready(r) == asked[r] = NoRequest /\ count < MaxAsked
Ask(r, op) == asked' = [asked EXCEPT ![r] = op] /\ count' = count + 1
Answer(r) == asked' = [asked EXCEPT ![r] = NoRequest]
Then(r, op) == asked' = [asked EXCEPT ![r] = op]
OneStep == count < MaxAsked /\ count' = count + 1

ghosts == <<seen, blurred, served, stranded>>
accounts == <<active, admins, photo, pictures>>

(* membershipOf.                                                           *)
MayTouch(u, c) == u \in active /\ Live(c) /\ IsMember(u, c)

In(c, m) == message[m] # Nobody /\ message[m].conv = c

Without(u, c) ==
  /\ member' = [member EXCEPT ![c][u] = Nobody]
  /\ seen' = [seen EXCEPT ![u] = {m \in @ : ~In(c, m)}]

(* Whoever joins finds the thread as it is, all of it unread.              *)
With(us, c) ==
  LET new == {u \in us : ~IsMember(u, c)} IN
  /\ member' = [member EXCEPT ![c] = [u \in People |-> IF u \in new THEN Row ELSE @[u]]]
  /\ served' = [m \in Messages |-> IF In(c, m) THEN served[m] \cup new ELSE served[m]]
  /\ blurred' = {x \in blurred : ~(x[1] \in new /\ In(c, x[2]))}

AdminsIn(c) == {u \in Members(c) : u \in admins /\ u \in active}

-----------------------------------------------------------------------------
(* Sending.                                                                *)

(* sendMessage: the checks, and the attachments put into storage.          *)
AskSend(r, u, c, m, file) ==
  /\ Ready(r) /\ MayTouch(u, c) /\ CanPost(u, c)
  /\ message[m] = Nobody
  /\ \A q \in Requests : asked[q].kind \in {"send", "writing"} => asked[q].msg # m
  /\ objects' = IF file THEN objects \cup {m} ELSE objects
  /\ Ask(r, [kind |-> "send", by |-> u, conv |-> c, msg |-> m, file |-> file])
  /\ UNCHANGED <<accounts, chat, member, message, tabs, bell, clock, ghosts>>

(* The transaction begins; its time is the message's.                      *)
BeginSend(r) ==
  /\ asked[r].kind = "send"
  /\ clock' = clock + 1
  /\ Then(r, [kind |-> "writing", by |-> asked[r].by, conv |-> asked[r].conv,
              msg |-> asked[r].msg, file |-> asked[r].file, at |-> clock + 1,
              shown |-> {m \in Messages : In(asked[r].conv, m)}])
  /\ UNCHANGED <<accounts, chat, member, message, objects, tabs, bell, count, ghosts>>

(* Messages of c, committed or about to be, whose time is on the wrong side *)
(* of a read mark for what u has seen.                                     *)
Blur(u, c, mark, has) ==
  {<<u, m>> : m \in {n \in Messages : In(c, n) /\ (message[n].at <= mark) # (n \in has)}}
  \cup {<<u, asked[r].msg>> : r \in {q \in Requests :
           asked[q].kind = "writing" /\ asked[q].conv = c /\ asked[q].at <= mark}}

(* Fault: the mark takes the time of its own statement.                    *)
MarkedLate(r) == clock

MarkOfSender(r) == asked[r].at

(* Message, attachment rows and the sender's read mark commit together.    *)
CommitSend(r) ==
  LET q == asked[r] IN
  /\ q.kind = "writing"
  /\ message' = [message EXCEPT ![q.msg] =
       [conv |-> q.conv, sender |-> q.by, at |-> q.at, text |-> TRUE, file |-> q.file,
        deleted |-> FALSE]]
  /\ IF IsMember(q.by, q.conv)
       THEN /\ member' = [member EXCEPT ![q.conv][q.by].read = MarkOfSender(r)]
            /\ seen' = [seen EXCEPT ![q.by] = @ \cup q.shown]
            /\ blurred' = (blurred \ ({q.by} \X {m \in Messages : In(q.conv, m)}))
                          \cup Blur(q.by, q.conv, q.at, seen'[q.by])
       ELSE UNCHANGED <<member, seen, blurred>>
  /\ Then(r, [kind |-> "tell", by |-> q.by, conv |-> q.conv, msg |-> q.msg])
  /\ UNCHANGED <<accounts, chat, objects, tabs, bell, clock, count, served, stranded>>

(* fanOut reads the members and writes to every open stream at once ...    *)
Publish(r) ==
  LET q == asked[r]
      to == Members(q.conv) \cap active
      quiet == {u \in to : member[q.conv][u].muted}
  IN /\ q.kind = "tell"
     /\ served' = [served EXCEPT ![q.msg] = @ \cup (to \cap tabs) \cup quiet \cup {q.by}
                                              \cup (People \ to)]
     /\ Then(r, [kind |-> "ring", by |-> q.by, conv |-> q.conv, msg |-> q.msg,
                 left |-> to \ (quiet \cup {q.by})])
     /\ UNCHANGED <<accounts, chat, member, message, objects, tabs, bell, clock, count,
                    seen, blurred, stranded>>

(* ... unless one of the reads after the commit fails: the message is      *)
(* there, the sender has an error, and nobody is told.                     *)
TellFails(r) ==
  /\ asked[r].kind = "tell"
  /\ served' = [served EXCEPT ![asked[r].msg] = People]
  /\ Answer(r)
  /\ UNCHANGED <<accounts, chat, member, message, objects, tabs, bell, clock, count,
                 seen, blurred, stranded>>

(* Fault: the stream that is looked for is the sender's.                   *)
SenderConnected(r, u) == asked[r].by \in tabs

IsConnected(r, u) == u \in tabs

(* ... and rings the bell of each who has no stream open by then.  A bell  *)
(* that cannot be rung is left at that.                                    *)
Ring(r, u) ==
  LET q == asked[r] IN
  /\ q.kind = "ring" /\ u \in q.left
  /\ IF IsConnected(r, u) THEN UNCHANGED <<bell, served>>
     ELSE /\ \/ bell' = [bell EXCEPT ![q.conv] = @ \cup {u}]
             \/ UNCHANGED bell
          /\ served' = [served EXCEPT ![q.msg] = @ \cup {u}]
  /\ Then(r, [q EXCEPT !.left = @ \ {u}])
  /\ UNCHANGED <<accounts, chat, member, message, objects, tabs, clock, count,
                 seen, blurred, stranded>>

SendDone(r) ==
  /\ asked[r].kind = "ring" /\ asked[r].left = {}
  /\ Answer(r)
  /\ UNCHANGED <<accounts, chat, member, message, objects, tabs, bell, clock, count, ghosts>>

(* A stream that opens after m was published and before the bell is rung   *)
(* gets neither.                                                           *)
TooLate(u, m) ==
  \E r \in Requests : asked[r].kind = "ring" /\ asked[r].msg = m /\ u \in asked[r].left

(* subscribe: the stream counts from now on, whatever the page has loaded. *)
OpenTab(u) ==
  /\ OneStep /\ u \in active \ tabs
  /\ tabs' = tabs \cup {u}
  /\ served' = [m \in Messages |-> IF TooLate(u, m) THEN served[m] \cup {u} ELSE served[m]]
  /\ UNCHANGED <<accounts, chat, member, message, objects, bell, asked, clock,
                 seen, blurred, stranded>>

(* drop, when the process notices that a stream is closed.                 *)
CloseTab(u) ==
  /\ OneStep /\ u \in tabs /\ tabs' = tabs \ {u}
  /\ UNCHANGED <<accounts, chat, member, message, objects, bell, asked, clock, ghosts>>

(* markRead: what is committed now is what the thread shows.               *)
MarkRead(u, c) ==
  LET shown == {m \in Messages : In(c, m)}
  IN /\ MayTouch(u, c) /\ OneStep
     /\ clock' = clock + 1
     /\ member' = [member EXCEPT ![c][u].read = clock + 1]
     /\ bell' = [bell EXCEPT ![c] = @ \ {u}]
     /\ seen' = [seen EXCEPT ![u] = @ \cup shown]
     /\ blurred' = (blurred \ ({u} \X shown)) \cup Blur(u, c, clock + 1, seen'[u])
     /\ UNCHANGED <<accounts, chat, message, objects, tabs, asked, served, stranded>>

SetMute(u, c, muted) ==
  /\ MayTouch(u, c) /\ OneStep
  /\ member[c][u].muted # muted
  /\ member' = [member EXCEPT ![c][u].muted = muted]
  /\ UNCHANGED <<accounts, chat, message, objects, tabs, bell, asked, clock, ghosts>>

-----------------------------------------------------------------------------
(* Changing one's mind.                                                    *)

AskAmend(r, u, m, what) ==
  /\ Ready(r) /\ message[m] # Nobody /\ MayTouch(u, message[m].conv) /\ CanAmend(u, m)
  /\ Ask(r, [kind |-> what, by |-> u, msg |-> m, file |-> message[m].file])
  /\ UNCHANGED <<accounts, chat, member, message, objects, tabs, bell, clock, ghosts>>

(* editMessage writes the text without looking again.                      *)
WriteEdit(r) ==
  /\ asked[r].kind = "edit"
  /\ message' = [message EXCEPT ![asked[r].msg].text = TRUE]
  /\ Answer(r)
  /\ UNCHANGED <<accounts, chat, member, objects, tabs, bell, clock, count, ghosts>>

(* deleteMessage: text and rows go in one transaction, the object after it. *)
CommitDelete(r) ==
  LET m == asked[r].msg IN
  /\ asked[r].kind = "delete"
  /\ message' = [message EXCEPT ![m].text = FALSE, ![m].file = FALSE, ![m].deleted = TRUE]
  /\ Then(r, [kind |-> "remove", msg |-> m, file |-> asked[r].file])
  /\ UNCHANGED <<accounts, chat, member, objects, tabs, bell, clock, count, ghosts>>

RemoveObject(r) ==
  /\ asked[r].kind = "remove"
  /\ objects' = IF asked[r].file THEN objects \ {asked[r].msg} ELSE objects
  /\ Answer(r)
  /\ UNCHANGED <<accounts, chat, member, message, tabs, bell, clock, count, ghosts>>

(* replacePhoto: the new picture is stored, and the old key read, before   *)
(* the row changes; a removal only reads.                                  *)
AskPhoto(r, u, new) ==
  /\ Ready(r) /\ u \in active /\ (new # Nobody => pictures[new] = "unwritten")
  /\ pictures' = [p \in Pictures |-> IF p = new THEN "stored" ELSE pictures[p]]
  /\ Ask(r, [kind |-> "photo", new |-> new, old |-> photo])
  /\ UNCHANGED <<active, admins, photo, chat, member, message, objects, tabs, bell, clock, ghosts>>

WritePhoto(r) ==
  /\ asked[r].kind = "photo"
  /\ photo' = asked[r].new
  /\ pictures' = [p \in Pictures |-> IF p = asked[r].old THEN "removed" ELSE pictures[p]]
  /\ Answer(r)
  /\ UNCHANGED <<active, admins, chat, member, message, objects, tabs, bell, clock, count, ghosts>>

-----------------------------------------------------------------------------
(* Conversations and their members.                                        *)

OpenDirect(u, v) ==
  LET c == {u, v} IN
  /\ OneStep /\ u \in active /\ v \in active /\ CanOpenDirect(u, v)
  /\ chat' = [chat EXCEPT ![c] = [archived |-> FALSE, everyone |-> TRUE]]
  /\ With({u, v}, c)
  /\ UNCHANGED <<accounts, message, objects, tabs, bell, asked, clock, seen, stranded>>

CreateGroup(u, others, everyone) ==
  /\ OneStep /\ u \in admins \cap active /\ others \subseteq active /\ chat[Group] = Nobody
  /\ chat' = [chat EXCEPT ![Group] = [archived |-> FALSE, everyone |-> everyone]]
  /\ With({u} \cup others, Group)
  /\ UNCHANGED <<accounts, message, objects, tabs, bell, asked, clock, seen, stranded>>

SetPosting(u, c, everyone) ==
  /\ OneStep /\ MayTouch(u, c) /\ CanManage(u, c)
  /\ chat' = [chat EXCEPT ![c].everyone = everyone]
  /\ UNCHANGED <<accounts, member, message, objects, tabs, bell, asked, clock, ghosts>>

AddMember(u, c, v) ==
  /\ OneStep /\ MayTouch(u, c) /\ CanManage(u, c) /\ v \in active /\ ~IsMember(v, c)
  /\ With({v}, c)
  /\ UNCHANGED <<accounts, chat, message, objects, tabs, bell, asked, clock, seen, stranded>>

(* Whether the group is left without anybody to run it.                    *)
Strands(c, u) == c = Group /\ AdminsIn(c) \ {u} = {}

Overtaken == [r \in Requests |-> IF asked[r].kind = "leave" THEN [asked[r] EXCEPT !.alone = FALSE]
                                 ELSE asked[r]]

RemoveMember(u, c, v) ==
  /\ OneStep /\ MayTouch(u, c) /\ CanManage(u, c) /\ IsMember(v, c)
  /\ asked' = Overtaken
  /\ Without(v, c)
  /\ stranded' = (stranded \/ Strands(c, v))
  /\ UNCHANGED <<accounts, chat, message, objects, tabs, bell, clock, blurred, served>>

IsLastAdmin(u, c) == AdminsIn(c) \ {u} = {}

(* leaveConversation asks for another admin before its transaction ...     *)
AskLeave(r, u, c) ==
  /\ Ready(r) /\ MayTouch(u, c) /\ CanLeave(c)
  /\ ~(u \in admins /\ IsLastAdmin(u, c))
  /\ Ask(r, [kind |-> "leave", by |-> u, conv |-> c, alone |-> TRUE])
  /\ UNCHANGED <<accounts, chat, member, message, objects, tabs, bell, clock, ghosts>>

(* ... which does not ask again.                                           *)
CommitLeave(r) ==
  LET q == asked[r] IN
  /\ q.kind = "leave"
  /\ Without(q.by, q.conv)
  /\ asked' = [Overtaken EXCEPT ![r] = NoRequest]
  /\ stranded' = (stranded \/ (~q.alone /\ Strands(q.conv, q.by)))
  /\ UNCHANGED <<accounts, chat, message, objects, tabs, bell, clock, count, blurred, served>>

DeleteGroup(u) ==
  /\ OneStep /\ MayTouch(u, Group) /\ CanManage(u, Group)
  /\ chat' = [chat EXCEPT ![Group].archived = TRUE]
  /\ UNCHANGED <<accounts, member, message, objects, tabs, bell, asked, clock, ghosts>>

(* ensureCommunity when the process starts.                                *)
EnsureCommunity ==
  /\ OneStep /\ With(active, Community)
  /\ UNCHANGED <<accounts, chat, message, objects, tabs, bell, asked, clock, seen, stranded>>

-----------------------------------------------------------------------------
(* Staff changes an account: what is under way in a group may be overtaken. *)
(* An open stream stays open.                                              *)
Account(as, adm) ==
  /\ OneStep
  /\ active' = as /\ admins' = adm
  /\ asked' = Overtaken
  /\ stranded' = (stranded \/ ~\E u \in Members(Group) : u \in as /\ u \in adm)
  /\ UNCHANGED <<chat, message, objects, photo, pictures, tabs, bell, clock>>

Deactivate(u) ==
  /\ u \in active /\ Account(active \ {u}, admins)
  /\ UNCHANGED <<member, seen, blurred, served>>

Activate(u) ==
  /\ u \notin active /\ Account(active \cup {u}, admins)
  /\ With({u}, Community) /\ UNCHANGED seen

SetAdmin(u) ==
  /\ Account(active, IF u \in admins THEN admins \ {u} ELSE admins \cup {u})
  /\ UNCHANGED <<member, seen, blurred, served>>

(* The process ends: streams close and requests stop where they are.       *)
Exit ==
  /\ \E r \in Requests : asked[r] # NoRequest
  /\ asked' = [r \in Requests |-> NoRequest] /\ tabs' = {}
  /\ served' = [m \in Messages |->
       IF \E r \in Requests : asked[r].kind \in {"tell", "ring"} /\ asked[r].msg = m
         THEN People ELSE served[m]]
  /\ UNCHANGED <<accounts, chat, member, message, objects, bell, clock, count,
                 seen, blurred, stranded>>

Request(r) ==
  /\ Ready(r)
  /\ \E u \in People :
       \/ \E c \in Conversations, m \in Messages, file \in BOOLEAN : AskSend(r, u, c, m, file)
       \/ \E m \in Messages, what \in {"edit", "delete"} : AskAmend(r, u, m, what)
       \/ \E c \in Conversations : AskLeave(r, u, c)
       \/ \E new \in Pictures \cup {Nobody} : AskPhoto(r, u, new)

AtOnce ==
  /\ count < MaxAsked
  /\ \E u \in People :
       \/ \E c \in Conversations :
            \/ MarkRead(u, c)
            \/ \E b \in BOOLEAN : SetMute(u, c, b) \/ SetPosting(u, c, b)
            \/ \E v \in People : AddMember(u, c, v) \/ RemoveMember(u, c, v)
       \/ \E v \in People : OpenDirect(u, v)
       \/ \E others \in SUBSET People, b \in BOOLEAN : CreateGroup(u, others, b)
       \/ DeleteGroup(u) \/ Deactivate(u) \/ Activate(u) \/ SetAdmin(u)

Next ==
  \/ \E r \in Requests :
       \/ Request(r) \/ BeginSend(r) \/ CommitSend(r) \/ Publish(r) \/ TellFails(r) \/ SendDone(r)
       \/ \E u \in People : Ring(r, u)
       \/ WriteEdit(r) \/ CommitDelete(r) \/ RemoveObject(r) \/ CommitLeave(r) \/ WritePhoto(r)
  \/ AtOnce \/ EnsureCommunity \/ Exit
  \/ \E u \in People : OpenTab(u) \/ CloseTab(u)

Spec == Init /\ [][Next]_chatVars

-----------------------------------------------------------------------------
(* Properties.                                                             *)

(* What the tables hold, and that nobody has a bell or a role that no      *)
(* account has.                                                            *)
TypeOK ==
  /\ active \subseteq People /\ admins \subseteq People /\ tabs \subseteq People
  /\ \A c \in Conversations :
       /\ bell[c] \subseteq People
       /\ chat[c] = Nobody => Members(c) = {}
       /\ c \notin Rooms => Members(c) \in {{}, c}
  /\ \A m \in Messages : message[m] # Nobody => message[m].at \in 1..clock
  /\ count \in 0..MaxAsked

(* LIST_SQL and unreadTotal.                                               *)
Unread(u, m) ==
  LET c == message[m].conv IN
  message[m].sender # u /\ message[m].at > member[c][u].read

(* The count is never stored: what a member has not had on the screen is   *)
(* counted as unread and what was there is not, unless a message committed *)
(* after a read mark that is later than it, or somebody's own sending put  *)
(* the mark back.                                                          *)
UnreadIsWhatWasNotSeen ==
  \A m \in Messages, u \in People :
    (message[m] # Nobody /\ IsMember(u, message[m].conv) /\ message[m].sender # u
       /\ <<u, m>> \notin blurred)
      => (Unread(u, m) <=> m \notin seen[u])

(* Nobody is passed over: once a sending is over, the message was written  *)
(* to a stream of each member, or their bell was rung, whichever streams   *)
(* opened and closed and whoever joined, left or was closed meanwhile.     *)
(* What the code gives up is left out by name: the process ended or a read *)
(* failed after the commit, the bell could not be written, or the stream   *)
(* opened after the publication and before the bell.  That a stream counts *)
(* as open is no proof that it carries (realtime.ts:12).                   *)
NobodyIsPassedOver ==
  \A m \in Messages :
    (/\ message[m] # Nobody
     /\ \A r \in Requests : asked[r].kind \in {"tell", "ring"} => asked[r].msg # m)
      => Members(message[m].conv) \subseteq served[m]

(* Leaving never leaves a group without an admin, unless two leave at once *)
(* or an admin is removed, demoted or deactivated.                         *)
GroupsKeepAnAdmin == Live(Group) /\ ~stranded => AdminsIn(Group) # {}

(* A file a thread links to and a picture a row names are in storage,      *)
(* whenever the process ends and whoever changes the picture meanwhile.    *)
FilesAreThere ==
  /\ \A m \in Messages : message[m] # Nobody /\ message[m].file => m \in objects
  /\ photo # Nobody => pictures[photo] = "stored"

-----------------------------------------------------------------------------
(* What the comments say and the code does not do.                         *)

(* chats.ts:1276, "the last admin is asked to hand it over or remove it    *)
(* rather than being allowed to strand it": removing oneself is not asked. *)
NeverStranded == Live(Group) => \E u \in Members(Group) : u \in admins

(* chats.ts:758, a deleted message is a tombstone: an edit that was checked *)
(* before puts the text back, and the list shows it as the preview.        *)
DeletedSaysNothing ==
  \A m \in Messages : message[m] # Nobody /\ message[m].deleted => ~message[m].text

(* realtime.ts:130-132, "somebody watching the conversation has already    *)
(* been told": a stream that opens between the publication and the bell    *)
(* has not, and counts.                                                    *)
WatchingIsTold == [][\A u \in People : OpenTab(u) => \A m \in Messages : ~TooLate(u, m)]_chatVars
=============================================================================
