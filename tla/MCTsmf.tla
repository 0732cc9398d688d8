------------------------------- MODULE MCTsmf -------------------------------
EXTENDS Tsmf

Frame(valid, tlv, owner, load) == [valid |-> valid, tlv |-> tlv, owner |-> owner, load |-> load]

MCCarriers ==
    [ (* the TSs in use change, and one is declared TLV that is not *)
      changing |-> [header |-> TRUE, frames |->
         << Frame({0, 2}, {}, <<1, 3, 1>>, <<"mpeg", "mpeg", "null">>),
            Frame({1, 2}, {2}, <<2, 3, 3>>, <<"mpeg", "mpeg", "mpeg">>) >>],
      (* TLV packets that cross frames, and one that is too long *)
      tlv |-> [header |-> TRUE, frames |->
         << Frame({5}, {5}, <<6, 6, 0>>, <<"start", "cont", "null">>),
            Frame({5}, {5}, <<6, 0, 6>>, <<"start", "mpeg", "start">>),
            Frame({5}, {5}, <<6, 6, 6>>, <<"cont", "cont", "startbad">>) >>],
      (* no TSMF *)
      single |-> [header |-> FALSE, frames |->
         << Frame({}, {}, <<0, 0, 0>>, <<"mpeg", "mpeg", "null">>) >>] ]
MCIndexes == {0, 1}
=============================================================================
