---------------------------- MODULE RedisCluster ----------------------------
(***************************************************************************)
(* The clients of a Redis cluster (xredis/xredis.hpp): one client for each *)
(* master, kept by the last slot of its range, and changed when set_addr   *)
(* asks for the masters again.  Nothing removes a master that is no longer *)
(* listed, and two clients cannot be kept for one last slot.               *)
(***************************************************************************)
EXTENDS Naturals, Sequences, FiniteSets, FiniteSetsExt, SequencesExt

CONSTANTS Master,     \* the identities of masters
          LastSlot,   \* slots are 0..LastSlot; the code's max_slots_
          MaxUpdates

ASSUME ClusterAssumption == LastSlot \in Nat \ {0} /\ MaxUpdates \in Nat

VARIABLES
  layouts,    \* the listings of masters the server gave, the newest last
  masterInfos,\* master_infos_
  clients     \* clients_: last slot -> [id, min, max]

clusterVars == <<layouts, masterInfos, clients>>

\* A listing: masters in any order, whose ranges divide the slots in two.
Low(a, s) == [id |-> a, min |-> 0, max |-> s]
High(b, s) == [id |-> b, min |-> s + 1, max |-> LastSlot]
Listings ==
  {<<Low(a, LastSlot)>> : a \in Master} \union
  {w \in {<<Low(a, s), High(b, s)>> : a, b \in Master, s \in 0 .. LastSlot - 1}
           \union {<<High(b, s), Low(a, s)>> : a, b \in Master, s \in 0 .. LastSlot - 1} :
     w[1].id # w[2].id}

ClusterTypeOK ==
  /\ layouts \in Seq(Listings) /\ Len(layouts) <= MaxUpdates
  /\ DOMAIN clients \subseteq 0..LastSlot
  /\ \A k \in DOMAIN clients : clients[k].id \in Master

ClusterInit == layouts = <<>> /\ masterInfos = <<>> /\ clients = <<>>

Keep(c, k, client) == [j \in DOMAIN c \union {k} |-> IF j = k THEN client ELSE c[j]]
\* Mutant: the place a client moves from is left as it is.
KeptTwice(c, k) == c
Drop(c, k) == [j \in DOMAIN c \ {k} |-> c[j]]
\* std::map::emplace leaves what is there; the new client is destroyed.
Emplace(c, k, client) == IF k \in DOMAIN c THEN c ELSE Keep(c, k, client)

\* One master of the listing: its client is found by identity, and kept
\* under its new last slot; a new master gets a client.
UpdateClient(c, m) ==
  LET held == {k \in DOMAIN c : c[k].id = m.id}
  IN IF held = {} THEN Emplace(c, m.max, m)
     ELSE LET k == CHOOSE k \in held : TRUE
          IN IF c[k].max = m.max THEN Keep(c, k, m)
             ELSE Emplace(Drop(c, k), m.max, m)

UpdateClients(c, listing) == FoldLeft(UpdateClient, c, listing)

\* cluster_nodes_callback and update_client
NodesCallback(listing) ==
  /\ Len(layouts) < MaxUpdates
  /\ layouts' = Append(layouts, listing)
  /\ IF listing = masterInfos THEN UNCHANGED <<masterInfos, clients>>
     ELSE /\ clients' = UpdateClients(clients, listing)
          /\ masterInfos' = listing

ClusterNext == \E listing \in Listings : NodesCallback(listing)

ClusterSpec == ClusterInit /\ [][ClusterNext]_clusterVars

Nobody == [id |-> "nobody"]

\* get_client, for a key of this slot
GetClient(slot) ==
  LET above == {k \in DOMAIN clients : k >= slot}
  IN IF above = {} THEN Nobody
     ELSE IF clients[Min(above)].min > slot THEN Nobody ELSE clients[Min(above)]

\* get_slot takes the remainder by max_slots_, so that the last slot gets no key.
GetSlot(crc) == crc % LastSlot

---------------------------------------------------------------------------

Owner(listing, slot) ==
  CHOOSE m \in ToSet(listing) : m.min <= slot /\ slot <= m.max

Slots == {GetSlot(crc) : crc \in 0..(2 * LastSlot)}

\* FirstWhole: after the first listing every slot that a key has is served by
\* the client of the master that owns it.
FirstWhole ==
  Len(layouts) = 1 => \A s \in Slots : GetClient(s) = Owner(layouts[1], s)

\* RoutedAsTold: whatever listings come, a key is only sent to a master that
\* owned its slot in the last listing that named this master.
RoutedAsTold ==
  \A s \in Slots : GetClient(s) # Nobody =>
    LET id == GetClient(s).id
        naming == {i \in DOMAIN layouts : \E m \in ToSet(layouts[i]) : m.id = id}
    IN naming # {} /\ Owner(layouts[Max(naming)], s).id = id

\* A key is sent to a master that owned its slot when it was last listed.
ClusterSafe == ClusterTypeOK /\ FirstWhole /\ RoutedAsTold

=============================================================================
