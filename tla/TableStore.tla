---------------------------- MODULE TableStore ----------------------------
(***************************************************************************)
(* The node table as a value, and the functions that change it while       *)
(* tab.mutex is held (pkg/discover/table.go).                              *)
(*                                                                         *)
(* Of a node record its ID and its IP matter: the record of a node that    *)
(* moves has another IP.  Nodes without an IP are left out: addIP refuses  *)
(* them.                                                                   *)
(***************************************************************************)
EXTENDS Integers, Sequences

CONSTANTS
  ID,               \* the IDs of the other nodes
  IP,
  Endpoint,         \* the IPs each node may announce
  Bucket,
  bucketOf,         \* the bucket of an ID, by its distance to the local node
  Subnet,           \* /24 networks
  LAN,              \* the local networks, which the limits do not count
  netOf,            \* the network of an IP
  bucketSize, maxReplacements, bucketIPLimit, tableIPLimit

ASSUME TableAssumption ==
  /\ Endpoint \in [ID -> SUBSET IP]
  /\ bucketOf \in [ID -> Bucket]
  /\ netOf \in [IP -> Subnet \cup {LAN}] /\ LAN \notin Subnet
  /\ bucketSize \in Nat \ {0} /\ maxReplacements \in Nat \ {0}
  /\ bucketIPLimit \in Nat \ {0} /\ tableIPLimit \in Nat \ {0}

Node == {n \in [id : ID, ip : IP] : n.ip \in Endpoint[n.id]}

(* The lists and the two kinds of netutil.DistinctNetSet.                  *)
Table ==
  [entries : [Bucket -> Seq(Node)], replacements : [Bucket -> Seq(Node)],
   bucketIPs : [Bucket -> [Subnet -> 0 .. bucketIPLimit]],
   ips : [Subnet -> 0 .. tableIPLimit]]

emptyTable ==
  [entries |-> [b \in Bucket |-> <<>>], replacements |-> [b \in Bucket |-> <<>>],
   bucketIPs |-> [b \in Bucket |-> [s \in Subnet |-> 0]],
   ips |-> [s \in Subnet |-> 0]]

bucket(n) == bucketOf[n.id]

---------------------------------------------------------------------------
(* Lists *)

contains(list, id) == \E i \in 1 .. Len(list) : list[i].id = id

(* The place of the first node with this ID.                               *)
indexOf(list, id) ==
  CHOOSE i \in 1 .. Len(list) :
    list[i].id = id /\ \A j \in 1 .. i - 1 : list[j].id # id

(* append(list[:i], list[i+1:]...)                                         *)
removeAt(list, i) ==
  [j \in 1 .. Len(list) - 1 |-> IF j < i THEN list[j] ELSE list[j + 1]]

deleteNode(list, n) ==
  IF contains(list, n.id) THEN removeAt(list, indexOf(list, n.id)) ELSE list

(* Mutant: nothing falls off the end.                                      *)
pushNodeGrows(list, n, max) == <<n>> \o list

(* The node that falls off the end is the caller's business.               *)
pushNode(list, n, max) ==
  [j \in 1 .. (IF Len(list) < max THEN Len(list) + 1 ELSE Len(list)) |->
     IF j = 1 THEN n ELSE list[j - 1]]

---------------------------------------------------------------------------
(* IP limits.  Add and Remove of netutil.DistinctNetSet count the          *)
(* addresses of a network up to a limit; Remove of an unknown one does     *)
(* nothing.                                                                *)

fits(tab, b, ip) ==
  LET s == netOf[ip]
  IN s \in Subnet => tab.ips[s] < tableIPLimit /\ tab.bucketIPs[b][s] < bucketIPLimit

(* What addIP does when it succeeds; it changes nothing when it fails.     *)
addIP(tab, b, ip) ==
  LET s == netOf[ip]
  IN IF s \in Subnet
       THEN [tab EXCEPT !.ips[s] = @ + 1, !.bucketIPs[b][s] = @ + 1]
       ELSE tab

minusOne(count) == IF count > 0 THEN count - 1 ELSE 0

removeIP(tab, b, ip) ==
  LET s == netOf[ip]
  IN IF s \in Subnet
       THEN [tab EXCEPT !.ips[s] = minusOne(@), !.bucketIPs[b][s] = minusOne(@)]
       ELSE tab

---------------------------------------------------------------------------
(* Changes of a bucket *)

addReplacement(tab, b, n) ==
  LET list == tab.replacements[b]
      pushed == [addIP(tab, b, n.ip) EXCEPT
                   !.replacements[b] = pushNode(list, n, maxReplacements)]
  IN IF contains(list, n.id) \/ ~fits(tab, b, n.ip)
       THEN tab
       ELSE IF Len(list) < maxReplacements
              THEN pushed
              ELSE removeIP(pushed, b, list[Len(list)].ip)

(* Mutant: a replacement that becomes an entry stays a replacement.        *)
insertNodeKeeps(tab, b, n, front) ==
  LET list == tab.entries[b]
  IN IF Len(list) >= bucketSize
       THEN addReplacement(tab, b, n)
       ELSE IF ~fits(tab, b, n.ip)
              THEN tab
              ELSE [addIP(tab, b, n.ip) EXCEPT
                      !.entries[b] = IF front THEN pushNode(list, n, bucketSize)
                                              ELSE Append(list, n)]

(* Where a node that is not in a bucket goes: into it, at the end or at    *)
(* the front, or among its replacements when it is full.                   *)
insertNode(tab, b, n, front) ==
  LET list == tab.entries[b]
  IN IF Len(list) >= bucketSize
       THEN addReplacement(tab, b, n)
       ELSE IF ~fits(tab, b, n.ip)
              THEN tab
              ELSE [addIP(tab, b, n.ip) EXCEPT
                      !.entries[b] = IF front THEN pushNode(list, n, bucketSize)
                                              ELSE Append(list, n),
                      !.replacements[b] = deleteNode(@, n)]

addSeenNode(tab, n) ==
  IF contains(tab.entries[bucket(n)], n.id)
    THEN tab
    ELSE insertNode(tab, bucket(n), n, FALSE)

(* The new IP of the entry with the ID of n fits in place of its old one.  *)
moves(tab, b, n) ==
  LET old == tab.entries[b][indexOf(tab.entries[b], n.id)]
  IN n.ip = old.ip \/ fits(removeIP(tab, b, old.ip), b, n.ip)

bumps(tab, b, n) == contains(tab.entries[b], n.id) /\ moves(tab, b, n)

(* Mutant: the new IP is not counted.                                      *)
bumpInBucketNoAdd(tab, b, n) ==
  LET list == tab.entries[b]
      i == indexOf(list, n.id)
      counted == IF n.ip = list[i].ip THEN tab ELSE removeIP(tab, b, list[i].ip)
  IN IF ~bumps(tab, b, n)
       THEN tab
       ELSE [counted EXCEPT !.entries[b] = <<n>> \o removeAt(list, i)]

(* Moves the entry to the front, with its new record.  When the new IP     *)
(* does not fit, the old one is put back and the entry stays.              *)
bumpInBucket(tab, b, n) ==
  LET list == tab.entries[b]
      i == indexOf(list, n.id)
      counted == IF n.ip = list[i].ip
                   THEN tab
                   ELSE addIP(removeIP(tab, b, list[i].ip), b, n.ip)
      putBack == addIP(removeIP(tab, b, list[i].ip), b, list[i].ip)
  IN IF ~contains(list, n.id)
       THEN tab
       ELSE IF ~moves(tab, b, n)
              THEN putBack
              ELSE [counted EXCEPT !.entries[b] = <<n>> \o removeAt(list, i)]

(* A node whose record does not fit is treated as if it were new.          *)
addVerifiedNode(tab, n) ==
  IF bumps(tab, bucket(n), n)
    THEN bumpInBucket(tab, bucket(n), n)
    ELSE insertNode(bumpInBucket(tab, bucket(n), n), bucket(n), n, TRUE)

deleteInBucket(tab, b, n) ==
  removeIP([tab EXCEPT !.entries[b] = deleteNode(@, n)], b, n.ip)

(* Mutant: whatever is last now is replaced.                               *)
replaceAny(tab, b, last, r) ==
  LET list == tab.entries[b]
  IN IF list = <<>>
       THEN tab
       ELSE IF tab.replacements[b] = <<>>
              THEN deleteInBucket(tab, b, list[Len(list)])
              ELSE removeIP([tab EXCEPT
                               !.replacements[b] = deleteNode(@, tab.replacements[b][r]),
                               !.entries[b][Len(list)] = tab.replacements[b][r]],
                            b, list[Len(list)].ip)

(* r is the place of the replacement that rand picks.                      *)
replace(tab, b, last, r) ==
  LET list == tab.entries[b]
      chosen == tab.replacements[b][r]
  IN IF list = <<>> \/ list[Len(list)].id # last.id
       THEN tab
       ELSE IF tab.replacements[b] = <<>>
              THEN deleteInBucket(tab, b, last)
              ELSE removeIP([tab EXCEPT
                               !.replacements[b] = deleteNode(@, chosen),
                               !.entries[b][Len(list)] = chosen],
                            b, last.ip)
===========================================================================
