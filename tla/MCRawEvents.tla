----------------------------- MODULE MCRawEvents -----------------------------
(* Small instances of the raw event log and of the automatic replies that        *)
(* ingested messages start, for TLC.  The events of one behaviour are about one   *)
(* external message, its story: x, which WhatsApp delivers, y, which this CRM     *)
(* sends, or z, which has no content.  In the story auto the log rests and a      *)
(* conversation is answered automatically; the two share no state.               *)
EXTENDS RawEvents, AutoReply
LOCAL INSTANCE TLC

CONSTANTS Stories, auto, x, y, z, k1, k2, k3, k4, k5, w1, r1

\* The customer's messages may change places.
InboundSymmetry == Permutations(Inbounds)

VARIABLE story

\* The message x delivered again under another jid;
\* a receipt for y and a duplicate of it; a contact snapshot and a protocol message.
OwnKeys == [e \in Events |-> <<k1, k2, k3, k4, k4, k5>>[e]]
ThreeStories == [e \in Events |->
                 <<"incoming", "incoming", "snapshot", "receipt", "receipt", "protocol">>[e]]
AboutAll == [e \in Events |-> <<x, x, z, y, y, z>>[e]]

\* A message, which needs two connections, and an event that needs one.
MessageFirst == [e \in Events |-> <<"incoming", "unsupported">>[e]]
AllAboutX == [e \in Events |-> x]

OnePool == [p \in Processors |-> "api"]
OwnPools == [p \in Processors |-> p]

InStory == story # auto /\ UNCHANGED <<story, avars>>
InAutoReply == story = auto /\ UNCHANGED <<story, vars>>

\* The conversation may end, without its being a deadlock of the log.
AllAnswered == clock = MaxTime /\ \A i \in Inbounds : phase[i] = "over"

MCInit == Init /\ AutoReplyInit /\ story \in Stories

MCNext ==
  \/ \E p \in Processors : InStory /\ ResetStaleProcessing(p)
  \/ \E p \in Processors : InStory /\ ClaimPendingBatch(p)
  \/ \E p \in Processors : InStory /\ ClaimTransientRecoveryBatch(p)
  \/ \E p \in Processors, e \in Events : InStory /\ StartEvent(p, e)
  \/ \E p \in Processors : InStory /\ EndBatch(p)
  \/ \E p \in Processors : InStory /\ KeyStep(p)
  \/ \E p \in Processors : InStory /\ MarkUnsupported(p)
  \/ \E p \in Processors : InStory /\ SaveSnapshot(p)
  \/ \E p \in Processors : InStory /\ BeginTransaction(p)
  \/ \E p \in Processors : InStory /\ BeginIngest(p)
  \/ \E p \in Processors : InStory /\ CommitIngest(p)
  \/ \E p \in Processors : InStory /\ LoseInsertRace(p)
  \/ \E p \in Processors : InStory /\ CommitEvent(p)
  \/ \E p \in Processors : InStory /\ RecordFailure(p)
  \/ \E p \in Processors : InStory /\ ConnectTimesOut(p)
  \/ \E p \in Processors : InStory /\ FaultStep(p)
  \/ \E p \in Processors : InStory /\ OperatorStep(p)
  \/ \E e \in Events : InStory /\ About[e] = story /\ Enqueue(e)
  \/ \E e \in Events : InStory /\ GrowStale(e)
  \/ \E e \in Events : InStory /\ CoolDown(e)
  \/ \E e \in Externals : InStory /\ e = story /\ LinkDraft(e)
  \/ InAutoReply /\ Tick
  \/ InAutoReply /\ PersonReplies
  \/ \E i \in Inbounds : InAutoReply /\ CustomerWrites(i)
  \/ \E i \in Inbounds : InAutoReply /\ IngestMessage(i)
  \/ \E i \in Inbounds : InAutoReply /\ Count(i)
  \/ \E i \in Inbounds : InAutoReply /\ CheckCooldown(i)
  \/ \E i \in Inbounds : InAutoReply /\ QueueDraft(i)
  \/ \E i \in Inbounds : InAutoReply /\ RecordEvent(i)
  \/ \E i \in Inbounds : InAutoReply /\ ClaimJob(i)
  \/ \E i \in Inbounds : InAutoReply /\ ResetStale(i)
  \/ \E i \in Inbounds : InAutoReply /\ PersonSendsMedia(i)
  \/ \E i \in Inbounds, n \in Tries : InAutoReply /\ LookAndSend(i, n)
  \/ \E i \in Inbounds, n \in Tries : InAutoReply /\ LookAndDrop(i, n)
  \/ \E i \in Inbounds, n \in Tries : InAutoReply /\ Drop(i, n)
  \/ \E i \in Inbounds, n \in Tries : InAutoReply /\ WhatsAppAccepts(i, n)
  \/ \E i \in Inbounds, n \in Tries : InAutoReply /\ CommitSent(i, n)
  \/ \E i \in Inbounds, n \in Tries : InAutoReply /\ CommitClashes(i, n)
  \/ \E i \in Inbounds, n \in Tries : InAutoReply /\ AttemptFails(i, n)
  \/ \E i \in Inbounds, n \in Tries : InAutoReply /\ RecordFailedAttempt(i, n)
  \/ \E i \in Inbounds, n \in Tries : InAutoReply /\ EchoStored(i, n)
  \/ \E i, j \in Inbounds, n \in Tries : InAutoReply /\ EchoLinks(i, n, j)
  \/ InAutoReply /\ AllAnswered /\ UNCHANGED avars

MCSpec == MCInit /\ [][MCNext]_<<vars, avars, story>>

MCFairSpec == MCSpec /\ Fairness
==============================================================================
