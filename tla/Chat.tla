-------------------------------- MODULE Chat --------------------------------
(***************************************************************************)
(* OperatorChatService: a driver's two threads, with the operators and     *)
(* with the administrators.  The first message creates the thread; each    *)
(* message is stored with the thread's lastMessageAt in one transaction;   *)
(* the driver lists a thread, marks it read and asks for the badge.        *)
(***************************************************************************)
EXTENDS Naturals, FiniteSets

CONSTANTS
  ChatMessages, (* ids of chat messages: a bound on them, and the name of   *)
                (* the request that sends each                              *)
  MaxTime       (* bound on the clock; 0 is SQL NULL                        *)

ASSUME ChatAssumption == MaxTime \in Nat \ {0}

VARIABLES
  thread,       (* per channel: does the row exist, lastMessageAt, and the  *)
                (* driver's lastReadAt                                      *)
  message,      (* messages and the requests that send them                 *)
  now,          (* the clock                                                *)
  seen,         (* history: messages the driver's app was given in a list   *)
  slipped,      (* history: messages sent but not listed when the driver    *)
                (* marked the channel read                                  *)
  overlapped,   (* history: channels in which two sends overlapped          *)
  refused       (* history: channels in which a send failed                 *)

chatVars == <<thread, message, now, seen, slipped, overlapped, refused>>

Channels  == {"operator", "admin"}
NoMessage == [pc |-> "none", channel |-> "operator", staff |-> FALSE, at |-> 0]

InChannel(c)  == {m \in ChatMessages : message[m].pc = "stored" /\ message[m].channel = c}
Sending(c)    == {m \in ChatMessages : message[m].pc \in {"find", "create", "store"}
                                     /\ message[m].channel = c}
Newest(c)     == {x \in 0..MaxTime : /\ \A m \in InChannel(c) : message[m].at <= x
                                     /\ x = 0 \/ \E m \in InChannel(c) : message[m].at = x}

-----------------------------------------------------------------------------
(* Sending, as driver, operator or administrator.                          *)

Send(m) ==
  /\ message[m].pc = "none"
  /\ \E c \in Channels, staff \in BOOLEAN :
       /\ message' = [message EXCEPT ![m] = [pc |-> "find", channel |-> c, staff |-> staff, at |-> 0]]
       /\ overlapped' = IF Sending(c) # {} THEN overlapped \cup {c} ELSE overlapped
  /\ UNCHANGED <<thread, now, seen, slipped, refused>>

NextAfterFind(c) == IF thread[c].exists THEN "store" ELSE "create"

FindThread(m) ==
  /\ message[m].pc = "find"
  /\ message' = [message EXCEPT ![m].pc = NextAfterFind(message[m].channel)]
  /\ UNCHANGED <<thread, now, seen, slipped, overlapped, refused>>

(* The unique driverId refuses the second of two first messages.            *)
CreateThread(m) ==
  LET c == message[m].channel
  IN  /\ message[m].pc = "create"
      /\ IF thread[c].exists
         THEN /\ message' = [message EXCEPT ![m].pc = "failed"]
              /\ refused' = refused \cup {c}
              /\ UNCHANGED thread
         ELSE /\ thread' = [thread EXCEPT ![c].exists = TRUE]
              /\ message' = [message EXCEPT ![m].pc = "store"]
              /\ UNCHANGED refused
      /\ UNCHANGED <<now, seen, slipped, overlapped>>

(* createdAt is taken when the transaction starts, some time before the     *)
(* message can be seen.                                                     *)
StampMessage(m) ==
  /\ message[m].pc = "store" /\ message[m].at = 0
  /\ message' = [message EXCEPT ![m].at = now]
  /\ slipped' = IF thread[message[m].channel].readAt = now THEN slipped \cup {m} ELSE slipped
  /\ UNCHANGED <<thread, now, seen, overlapped, refused>>

(* Mutant: only the driver's messages move the thread up.                   *)
TouchedByDriver(m) ==
  IF message[m].staff THEN thread ELSE [thread EXCEPT ![message[m].channel].last = message[m].at]
Touched(m) == [thread EXCEPT ![message[m].channel].last = message[m].at]

StoreMessage(m) ==
  /\ message[m].pc = "store" /\ message[m].at # 0
  /\ message' = [message EXCEPT ![m].pc = "stored"]
  /\ thread' = Touched(m)
  /\ UNCHANGED <<now, seen, slipped, overlapped, refused>>

SendDies(m) ==
  /\ message[m].pc \in {"find", "create", "store"}
  /\ message' = [message EXCEPT ![m].pc = "failed"]
  /\ UNCHANGED <<thread, now, seen, slipped, overlapped, refused>>

-----------------------------------------------------------------------------
(* The driver.                                                             *)

ListMessages(c) ==
  /\ InChannel(c) # {}
  /\ seen' = seen \cup InChannel(c)
  /\ UNCHANGED <<thread, message, now, slipped, overlapped, refused>>

MarkDriverChannelRead(c) ==
  /\ thread' = [thread EXCEPT ![c].readAt = now]
  /\ slipped' = slipped \cup ((InChannel(c) \cup {m \in Sending(c) : message[m].at # 0}) \ seen)
  /\ UNCHANGED <<message, now, seen, overlapped, refused>>

(* getUnreadForDriver counts the staff's messages after lastReadAt.         *)
Unread(c) == {m \in InChannel(c) : message[m].staff /\ message[m].at > thread[c].readAt}

Tick ==
  /\ now < MaxTime
  /\ now' = now + 1
  /\ UNCHANGED <<thread, message, seen, slipped, overlapped, refused>>

ChatInit ==
  /\ thread = [c \in Channels |-> [exists |-> FALSE, last |-> 0, readAt |-> 0]]
  /\ message = [m \in ChatMessages |-> NoMessage]
  /\ now = 1
  /\ seen = {} /\ slipped = {} /\ overlapped = {} /\ refused = {}

ChatNext ==
  \/ \E m \in ChatMessages : \/ Send(m) \/ FindThread(m) \/ CreateThread(m)
                         \/ StampMessage(m) \/ StoreMessage(m) \/ SendDies(m)
  \/ \E c \in Channels : ListMessages(c) \/ MarkDriverChannelRead(c)
  \/ Tick

ChatSpec == ChatInit /\ [][ChatNext]_chatVars

-----------------------------------------------------------------------------
(* Properties.                                                             *)

(* Rows are well formed; a message belongs to a thread that exists.        *)
ChatTypeOK ==
  /\ thread \in [Channels -> [exists : BOOLEAN, last : 0..MaxTime, readAt : 0..MaxTime]]
  /\ message \in [ChatMessages -> [pc : {"none", "find", "create", "store", "stored", "failed"},
                               channel : Channels, staff : BOOLEAN, at : 0..MaxTime]]
  /\ now \in 1..MaxTime
  /\ \A m \in ChatMessages : message[m].pc \in {"store", "stored"} =>
       thread[message[m].channel].exists /\ message[m].at <= now
  /\ seen \subseteq ChatMessages /\ slipped \subseteq ChatMessages
  /\ overlapped \subseteq Channels /\ refused \subseteq Channels

(* A message of the staff stays on the badge until the driver's app has    *)
(* listed it, unless the channel was marked read in the moment between the *)
(* message's time stamp and a list that shows it.                          *)
UnseenIsUnread ==
  \A c \in Channels : \A m \in InChannel(c) \ (seen \cup slipped) :
     message[m].staff => m \in Unread(c)

(* Threads are sorted by their newest message, unless two sends            *)
(* overlapped: then the later stamp may be overwritten by the earlier.     *)
LastIsNewest ==
  \A c \in Channels \ overlapped : thread[c].last \in Newest(c)

(* A send fails for want of a thread only against another first message.   *)
RefusedOnlyInRace == refused \subseteq overlapped

(* A thread tells its readers what is new in it: it exists once, the badge *)
(* counts what was not seen, and it stands where its newest message puts it. *)
ThreadsTell == UnseenIsUnread /\ LastIsNewest /\ RefusedOnlyInRace
=============================================================================
