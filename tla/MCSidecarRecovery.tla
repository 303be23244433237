-------------------------- MODULE MCSidecarRecovery --------------------------
EXTENDS SidecarRecovery

tx(id, kind) == [id |-> id, kind |-> kind]

\* Each block repeats an id of the one before it, which may still be in flight.
Repeats == <<
  <<tx("a", "plain"), tx("b", "malformed")>>,
  <<tx("a", "plain"), tx("b", "rejected")>>,
  <<tx("b", "plain")>> >>

\* A block with no transaction the database stores.
Unasked == << <<tx("a", "plain")>>, <<tx("b", "malformed")>> >>

TwoChains == {Repeats, Unasked}
AnyBlock == [numbers |-> {1}, ids |-> {"b"}]

Follow == {[start |-> 0, stop |-> 2], [start |-> 1, stop |-> Newest]}
=============================================================================
