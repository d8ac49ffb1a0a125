------------------------------- MODULE Channels -------------------------------
(***************************************************************************)
(* The channels table (models/channel.py, database/channels.py): the       *)
(* channels the bot can be asked to leave in the admin interface.  upsert  *)
(* and delete_by_slack_channel_id read before they write, hence two        *)
(* operators each, without a lock in between.                              *)
(***************************************************************************)
EXTENDS Naturals

CONSTANTS
    Threads,        \* whoever runs transactions
    Conversations   \* Slack channels, and direct messages

VARIABLES
    channelRow,     \* the row's id of each conversation, or 0
    channelRows,    \* rows ever inserted
    found           \* the row a transaction has read, or 0

channelsTable == <<channelRow, channelRows>>
channelVars == <<channelsTable, found>>

ChannelsInit ==
    /\ channelRow = [c \in Conversations |-> 0]
    /\ channelRows = 0
    /\ found = [p \in Threads |-> 0]

Listed == {c \in Conversations : channelRow[c] # 0}

\* The SELECT by slack_channel_id, or find_by_id.
FindChannel(p, c) ==
    /\ found' = [found EXCEPT ![p] = channelRow[c]]
    /\ UNCHANGED channelsTable

\* The transaction forgets it.
ForgetChannel(p) == found' = [found EXCEPT ![p] = 0]

\* The row it has read is gone, also when there is another by now.
Gone(p, c) == found[p] # 0 /\ channelRow[c] # found[p]

\* upsert(): slack_channel_id is unique, so that an INSERT beaten by another
\* raises IntegrityError; an UPDATE of a row that is gone raises
\* StaleDataError, but the ORM emits none when the name is the same.
UpsertRaises(p, c) == (found[p] = 0 /\ channelRow[c] # 0) \/ Gone(p, c)

Upsert(p, c) ==
    /\ IF found[p] = 0 /\ channelRow[c] = 0
         THEN /\ channelRow' = [channelRow EXCEPT ![c] = channelRows + 1]
              /\ channelRows' = channelRows + 1
         ELSE UNCHANGED channelsTable
    /\ ForgetChannel(p)

\* delete_by_slack_channel_id and delete_by_id, the DELETE: of the row that was
\* read, if it is still there.
Delete(p, c) ==
    /\ channelRow' = IF found[p] # 0 /\ ~Gone(p, c)
                       THEN [channelRow EXCEPT ![c] = 0] ELSE channelRow
    /\ ForgetChannel(p)
    /\ UNCHANGED channelRows

ChannelsTypeOK ==
    /\ channelRows \in Nat
    /\ channelRow \in [Conversations -> 0..channelRows]
    /\ found \in [Threads -> 0..channelRows]
    /\ \A c, d \in Listed : channelRow[c] = channelRow[d] => c = d

=============================================================================
