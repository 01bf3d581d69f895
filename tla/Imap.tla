-------------------------------- MODULE Imap --------------------------------
(***************************************************************************)
(* The vocabulary shared by the modules: the states of a session, the      *)
(* responses of a server and the commands of a client.                     *)
(*                                                                         *)
(* A message of the mailbox is a member of Messages, standing for both its *)
(* sequence number and its text.  A tag is a number: the strings           *)
(* "1", "2", ... that get_new_tag formats are 1, 2, ..., the literal       *)
(* "a001" of login is LoginTag, and the empty string is NoTag.  CutTag is  *)
(* what is left of a tag whose first characters were lost.                 *)
(***************************************************************************)
EXTENDS Integers, Sequences, FiniteSets

CONSTANTS
    Mailboxes,   \* the names a command may carry
    Messages,    \* the messages a mailbox may hold
    NoMailbox    \* the empty name: no mailbox was selected yet

ASSUME NoMailboxIsNone == NoMailbox \notin Mailboxes

ImapState == {"GREETING", "NAUTH", "AUTHD", "SELECTED", "LOGOUT",
              "RECEIVER_ERROR", "SERVER_BYED"}

\* "OTHER" stands for EXISTS, RECENT and FLAGS, which every caller treats alike.
ResponseType == {"OK", "NO", "BAD", "PREAUTH", "BYE", "SEARCH", "FETCH", "OTHER"}

NoTag    == -1
CutTag   == -2
LoginTag == 0

Tags == {NoTag, CutTag} \cup Nat

\* body: the numbers of a SEARCH, the text of a FETCH ({} when there is none).
Response == [type : ResponseType, tag : Tags, body : SUBSET Messages]

\* An untagged and a tagged response.
Untagged(type, body) == [type |-> type, tag |-> NoTag, body |-> body]
Tagged(type, t)      == [type |-> type, tag |-> t, body |-> {}]

\* The public operations of a Session that talk to the server.
Operation == {"greeting", "login", "select", "search", "fetch", "read", "logout"}

\* mb: the argument of SELECT; unseen: the criterion of SEARCH;
\* set: the sequence set of FETCH and STORE.
Command == [op : Operation, tag : Tags, mb : Mailboxes \cup {NoMailbox},
            unseen : BOOLEAN, set : SUBSET Messages]

Plain(op, t)   == [op |-> op, tag |-> t, mb |-> NoMailbox,
                   unseen |-> FALSE, set |-> {}]
=============================================================================
