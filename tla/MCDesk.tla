------------------------------ MODULE MCDesk ------------------------------
(* What staff have before them: the tasks with their reminders (the story  *)
(* "tasks") and the chats (the story "chats").  The other one stands still. *)
EXTENDS Tasks, TLC

CONSTANTS
  People, Messages, Pictures, Requests, MaxAsked, Community, Group, Nobody

VARIABLES
  story,
  active, admins, chat, member, message, objects, photo, pictures, tabs, bell,
  asked, clock, count, seen, blurred, served, stranded

Talk == INSTANCE Chats

ASSUME DeskAssumption == TasksAssumption /\ Talk!ChatsAssumption

chatVars == <<active, admins, chat, member, message, objects, photo, pictures, tabs,
              bell, asked, clock, count, seen, blurred, served, stranded>>

\* What the variables of the other story are.
Still == 0

MCInit ==
  \/ /\ story = "tasks" /\ Init
     /\ active = Still /\ admins = Still /\ chat = Still /\ member = Still
     /\ message = Still /\ objects = Still /\ photo = Still /\ pictures = Still
     /\ tabs = Still /\ bell = Still /\ asked = Still /\ clock = Still
     /\ count = Still /\ seen = Still /\ blurred = Still /\ served = Still
     /\ stranded = Still
  \/ /\ story = "chats" /\ Talk!Init
     /\ task = Still /\ nextTask = Still /\ request = Still /\ tick = Still
     /\ now = Still /\ requests = Still /\ told = Still /\ rearmed = Still
     /\ asleep = Still /\ unasked = Still /\ crossed = Still

MCNext ==
  \/ story = "tasks" /\ Next /\ UNCHANGED <<story, chatVars>>
  \/ story = "chats" /\ Talk!Next /\ UNCHANGED <<story, taskVars>>

MCSpec == MCInit /\ [][MCNext]_<<story, taskVars, chatVars>>

\* People and staff, messages and tasks... go by the same names, so that
\* the group of the symmetry is that of one story.
MCSymmetry ==
  Permutations(People) \cup Permutations(Messages) \cup Permutations(Pictures)
    \cup Permutations(Requests)

-----------------------------------------------------------------------------
(* tasks.ts: a reminder is told once per setting and stays set until then, *)
(* and the file shows the earliest of its open tasks.                      *)
TasksAreKept ==
  story = "tasks" => TypeOK /\ RemindedOncePerSetting /\ ReminderStands /\ NextTaskAgrees

(* chats.ts getUnread, markRead: the badge counts what was not seen.       *)
UnreadIsWhatWasNotSeen == story = "chats" => Talk!UnreadIsWhatWasNotSeen

(* chats.ts: a sending passes no member over, a group keeps an admin, and  *)
(* what the rows name is in storage.                                       *)
ChatsKeepFaith ==
  story = "chats" =>
    Talk!TypeOK /\ Talk!NobodyIsPassedOver /\ Talk!GroupsKeepAnAdmin /\ Talk!FilesAreThere
=============================================================================
