----------------------------- MODULE MCCatchUp -----------------------------
(* Three things that fall behind and must catch up: messages on their way  *)
(* out, the application form behind the portal's, and the badge behind the *)
(* chats.  A story is chosen at the start and the others stand still.  No  *)
(* fair action is enabled in a story that stands still.                    *)
EXTENDS MCMessaging

CONSTANTS
  Paths, Staff, Uploads, NoEdit, NoRow, MaxAnswers, MaxForms, MaxEnds,
  Counts, Calls, Free, Asked, MaxChanges, MaxTroubles

VARIABLES
  story,
  said, pushes, row, submitted, documents, columns, edits, events, counts,
  form, forms, ends, torn, typed,
  unread, shown, stream, timer, call, mounted, changes, troubles

Answers == INSTANCE Corrections WITH Files <- Uploads, MaxExits <- MaxEnds, client <- said,
    exits <- ends
Chats == INSTANCE Badge

ASSUME CatchUpAssumption == Answers!CorrectionsAssumption /\ Chats!BadgeAssumption

answerVars == <<said, pushes, row, submitted, documents, columns, edits, events,
                counts, form, forms, ends, torn, typed>>
badgeVars == <<unread, shown, stream, timer, call, mounted, changes, troubles>>

MCInit ==
  /\ story \in {"messages", "answers", "badge"}
  /\ Init /\ Answers!Init /\ Chats!Init
  /\ story # "badge" => unread = 0

MCNext ==
  /\ UNCHANGED story
  /\ \/ story = "messages" /\ Next /\ UNCHANGED <<answerVars, badgeVars>>
     \/ story = "answers" /\ Answers!Next /\ UNCHANGED <<vars, badgeVars>>
     \/ story = "badge" /\ Chats!Next /\ UNCHANGED <<vars, answerVars>>

MCSpec ==
  /\ MCInit /\ [][MCNext]_<<story, vars, answerVars, badgeVars>>
  /\ Fairness /\ Answers!Fairness /\ Chats!Fairness

-----------------------------------------------------------------------------
(* The rows, the requests and the pushes under way, and the tab.           *)
TypesOK == TypeOK /\ Answers!TypeOK /\ Chats!TypeOK

(* portal-import.ts, applications.ts: the columns the board sorts by agree *)
(* with the merged form, whatever pushes and saves cross; and a submission *)
(* is announced once, however the pushes arrive.  messaging.ts: what was   *)
(* recorded to go out has a job, or somebody about to plant one.           *)
NothingForgotten ==
  Answers!ColumnsAgree /\ Answers!SubmittedIsHeard /\ NothingLeftBehind

(* portal-import.ts, chat-live.ts: what staff see comes to what the client *)
(* and the server say once they are done, although pushes, events and      *)
(* answers are lost or cross.                                              *)
ScreensCatchUp == Answers!MirrorCatchesUp /\ Chats!BadgeCatchesUp
=============================================================================
