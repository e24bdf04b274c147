----------------------------- MODULE MCChannelScan -----------------------------
(* Small instances of module ChannelScan for TLC.                           *)
EXTENDS ChannelScan

\* A page or two of messages exist before the first scan; or one message, or none.
MCShortHistory == {2, 4}
MCEmptyOrNot   == {0, 1}

\* A whole page of records that do not validate.
MCMalformedPage == {10, 11}
MCDeletable     == {9}
NoMessages      == {}

================================================================================
