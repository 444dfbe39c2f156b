--------------------------- MODULE MCNetworkRows ---------------------------
(* Instances of NetworkRows for TLC: an interface with two addresses and a *)
(* hardware address, one with both families, a cellular one, and an entry  *)
(* without an address.                                                     *)
EXTENDS NetworkRows

Entry(n, f, a) == [name |-> n, family |-> f, address |-> a]

MCAddresses == {"10.0.0.1", "10.0.0.2", "10.1.0.1"}

MCEntries ==
  {Entry("en0", "inet", "10.0.0.1"), Entry("en1", "link", "nil"),
   Entry("en0", "inet6", "nil"), Entry("en1", "inet", "10.0.0.2"),
   Entry("en1", "inet", "10.0.0.1"), Entry("pdp_ip0", "inet", "10.1.0.1"),
   Entry("lo0", "none", "nil")}
=============================================================================
