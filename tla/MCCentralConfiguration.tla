----------------------- MODULE MCCentralConfiguration -----------------------
(* Small instances of CentralConfiguration and its message listener for TLC: *)
(* model values for threads, given in the cfg files, and documents with up   *)
(* to two members at the top, up to two levels of objects below them, keys   *)
(* and values that resemble the name searched for, and escaped quotes.       *)
EXTENDS RemoteConfigMessageListener

Escaped == <<"other", "backslash", "quote", "log_level">>
Similar == <<"other", "log_level">>

Member(key, value, ends) == [key |-> key, value |-> value, ends |-> ends]
String(text) == [kind |-> "string", text |-> text]
Object       == [kind |-> "object"]
Other        == [kind |-> "other"]

\* Each with the members of the objects it holds.
TopMembers ==
  { <<Member(<<"log_level">>, String(<<"debug">>), 0)>>,
    <<Member(<<"log_level">>, String(Escaped), 0)>>,
    <<Member(<<"log_level">>, Other, 0)>>,
    <<Member(<<"log_level">>, Object, 0), Member(<<"log_level">>, String(<<"info">>), 1)>>,
    <<Member(Similar, String(<<"log_level">>), 0)>>,
    <<Member(Similar, String(Escaped), 0)>>,
    <<Member(Similar, Object, 1)>>,
    <<Member(Similar, Object, 0), Member(Similar, String(<<"debug">>), 1)>>,
    <<Member(Similar, Object, 0), Member(<<"log_level">>, String(<<"info">>), 1)>>,
    <<Member(Similar, Object, 0), Member(Similar, Object, 0),
      Member(<<"log_level">>, String(<<"info">>), 2)>> }

MCDocuments == {FlattenSeq(tops) : tops \in UNION {[1..n -> TopMembers] : n \in 0..2}}
MCConfigs   == {<<"debug">>, <<"info">>, Escaped}

=============================================================================
