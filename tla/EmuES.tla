------------------------------- MODULE EmuES -------------------------------
(***************************************************************************)
(* The ES proxy of the IOS module (src/ios/IOS/EmuES.cpp).                 *)
(*                                                                         *)
(* A game's requests to /dev/es are checked and passed on to the real ES,  *)
(* except that questions about the running title are answered for the      *)
(* title of the emulated disc, once its partition is open.  DIVerify is    *)
(* called on the thread of the disc drive while the thread of ES serves    *)
(* requests, so each of its assignments is a step.                         *)
(*                                                                         *)
(* Vectors are told apart by their length: "u32", "u64", "view" and so on  *)
(* are the sizes of those types, "u64s" is as many u64 as the count in the *)
(* request says, "none" is no byte, "any" no condition.  Requests that are *)
(* not about the running title change nothing here; what the real ES       *)
(* answers them is external.                                               *)
(***************************************************************************)
EXTENDS Naturals, Sequences

CONSTANTS
  Titles,       \* title ids
  NoTitle,      \* what the statics hold before the first DIVerify
  Launcher,     \* the title the real ES takes for the running one
  Menu,         \* the system menu
  IOSTitles,    \* the titles 00000001-xxxxxxxx but Menu
  Requests      \* ioctlv requests: [cmd, ins, outs, aligned, title]

ASSUME TitleAssumption ==
  /\ NoTitle \notin Titles
  /\ {Launcher, Menu} \subseteq Titles /\ IOSTitles \subseteq Titles

VARIABLES
  titleID, ticket,  \* s_titleID, and the title of the ticket in s_ticket
  useTitleCtx,      \* s_useTitleCtx
  esReply           \* the last reply: [result, about], about is a title

esCtxVars == <<titleID, ticket, useTitleCtx>>
esVars == <<esCtxVars, esReply>>

\* The vectors a command takes.
Command(name, ins, outs) == [cmd |-> name, ins |-> ins, outs |-> outs]

SystemCommands ==
  { Command("GetDeviceID", <<>>, <<"u32">>),
    Command("LaunchTitle", <<"u64", "view">>, <<>>),
    Command("GetOwnedTitlesCount", <<>>, <<"u32">>),
    Command("GetTitlesCount", <<>>, <<"u32">>),
    Command("GetTitles", <<"u32">>, <<"u64s">>) }

TitleCommands ==
  { Command("GetTitleContentsCount", <<"u64">>, <<"u32">>),
    Command("GetTitleContents", <<"u64", "u32">>, <<"u32s">>),
    Command("GetNumTicketViews", <<"u64">>, <<"u32">>),
    Command("GetTicketViews", <<"u64", "u32">>, <<"views">>) }

MetadataCommands ==
  { Command("GetTMDViewSize", <<"u64">>, <<"u32">>),
    Command("GetTMDView", <<"u64">>, <<"any">>),
    Command("DIGetTicketView", <<"ticket">>, <<"view">>),
    Command("DIGetTicketView", <<"none">>, <<"view">>) }

DeviceCommands ==
  { Command("GetDataDir", <<"u64">>, <<"path">>),
    Command("GetDeviceCert", <<>>, <<"cert">>),
    Command("GetTitleID", <<>>, <<"u64">>) }

Commands == SystemCommands \cup TitleCommands \cup MetadataCommands \cup DeviceCommands

\* The checks of ReqIoctlv: a known command, the right number of vectors, each
\* of the right length and aligned.
Valid(r) ==
  /\ r.aligned
  /\ \E c \in Commands :
       /\ c.cmd = r.cmd /\ c.ins = r.ins
       /\ Len(c.outs) = Len(r.outs)
       /\ \A i \in 1 .. Len(c.outs) : c.outs[i] \in {r.outs[i], "any"}

ESInit ==
  /\ titleID = NoTitle /\ ticket = NoTitle /\ useTitleCtx = FALSE
  /\ esReply = [result |-> "none", about |-> NoTitle]

Answer(result, title) == esReply' = [result |-> result, about |-> title]

Refuse(r) == ~Valid(r) /\ Answer("Error", NoTitle)

\* GetTitleID: the disc's title, or the real ES's answer.
GetTitleID(r) ==
  /\ Valid(r) /\ r.cmd = "GetTitleID"
  /\ Answer("OK", IF useTitleCtx THEN titleID ELSE Launcher)

\* DIGetTicketView on the ticket of the request, on the disc's if it has none, or
\* on whatever the real ES takes without one.
DIGetTicketView(r) ==
  /\ Valid(r) /\ r.cmd = "DIGetTicketView"
  /\ \/ Answer("OK", IF r.ins[1] = "ticket" THEN r.title
                     ELSE IF useTitleCtx THEN ticket ELSE Launcher)
     \/ Answer("Error", NoTitle)

\* Config::BlockIOSReload.
BlockIOSReload == FALSE

\* LaunchTitle: the real ES starts the title, or the menu in place of an IOS.
LaunchTitle(r) ==
  /\ Valid(r) /\ r.cmd = "LaunchTitle"
  /\ \/ Answer("OK", IF BlockIOSReload /\ r.title \in IOSTitles THEN Menu ELSE r.title)
     \/ Answer("Error", NoTitle)

\* The other commands go to the real ES as they are.
Forward(r) ==
  /\ Valid(r) /\ r.cmd \notin {"GetTitleID", "DIGetTicketView", "LaunchTitle"}
  /\ Answer("OK", r.title) \/ Answer("Error", NoTitle)

\* The ES thread serves one ioctlv.
IPCRequest ==
  /\ \E r \in Requests :
       Refuse(r) \/ GetTitleID(r) \/ DIGetTicketView(r) \/ LaunchTitle(r) \/ Forward(r)
  /\ UNCHANGED esCtxVars

-----------------------------------------------------------------------------
(* DIVerify, on the thread of the disc drive, with the ticket of the title   *)
(* itself, so that the comparison of its title id cannot fail.               *)

VerifyTitle(t) ==
  titleID' = t /\ UNCHANGED <<ticket, useTitleCtx, esReply>>

VerifyTicket(t) ==
  ticket' = t /\ UNCHANGED <<titleID, useTitleCtx, esReply>>

VerifyDone ==
  useTitleCtx' = TRUE /\ UNCHANGED <<titleID, ticket, esReply>>

=============================================================================
