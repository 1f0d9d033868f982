-------------------------- MODULE DealSigningProofs --------------------------
(***************************************************************************)
(* Proofs about DealSigning, for any users, options, addresses, number of  *)
(* concurrent requests and number of requests served.                      *)
(***************************************************************************)
EXTENDS DealSigning, TLAPS

(* Appending to the same prefix is injective.                              *)
LEMMA PrefixCancel ==
    ASSUME NEW S, NEW s \in Seq(S), NEW t \in Seq(S), NEW u \in Seq(S),
           s \o t = s \o u
    PROVE  t = u
<1>1. Len(s \o t) = Len(s) + Len(t) /\ Len(s \o u) = Len(s) + Len(u)
  OBVIOUS
<1>2. Len(t) = Len(u)
  BY <1>1
<1>3. ASSUME NEW i \in 1..Len(t) PROVE t[i] = u[i]
  <2>1. (s \o t)[Len(s) + i] = t[i]
    OBVIOUS
  <2>2. (s \o u)[Len(s) + i] = u[i]
    BY <1>2
  <2>3. QED BY <2>1, <2>2
<1>4. QED BY <1>2, <1>3

(* The hash writes type, duration and price with no separator.  Because a  *)
(* listing option's type fixes its duration, no two options are written as *)
(* the same text.                                                          *)
LEMMA EncodeOptionInjective ==
    ASSUME NEW o \in Options, NEW p \in Options,
           EncodeOption(o) = EncodeOption(p)
    PROVE  o = p
<1>1. o.type = p.type /\ Decimal[o.duration] \o Decimal[o.price]
                            = Decimal[p.duration] \o Decimal[p.price]
  BY DEF EncodeOption
<1>2. o.duration = p.duration
  BY <1>1, OptionsAssumption
<1>3. Decimal[o.price] = Decimal[p.price]
  <2>1. /\ Decimal[o.duration] \in Seq(0..9)
        /\ Decimal[o.price] \in Seq(0..9) /\ Decimal[p.price] \in Seq(0..9)
    BY OptionsAssumption
  <2>2. Decimal[o.duration] \o Decimal[o.price]
            = Decimal[o.duration] \o Decimal[p.price]
    BY <1>1, <1>2
  <2>3. QED BY <2>1, <2>2, PrefixCancel
<1>4. o.price = p.price
  BY <1>3, OptionsAssumption
<1>5. QED BY <1>1, <1>2, <1>4, OptionsAssumption

-----------------------------------------------------------------------------
(* A signature computed from a copy of the deal with both payout addresses *)
(* set is a well-formed signature.                                         *)
LEMMA SignatureType ==
    ASSUME NEW o \in Options, NEW d \in Details, NEW u \in Users,
           NEW p \in [Sides -> Addresses]
    PROVE  ComputeDealSignature(o, d, u, p) \in Signatures
BY DEF Signatures

(* A payout address is written as itself.                                  *)
LEMMA TextOfAddresses ==
    ASSUME NEW p \in [Sides -> Addresses]
    PROVE  /\ \A s \in Sides : p[s] \in Seq(Nat) /\ Text(p[s]) = p[s]
           /\ PayoutText(p) \in Seq(Nat)
           /\ PayoutText(p) = p[Lessor] \o p[Lessee]
<1>1. Lessor \in Sides /\ Lessee \in Sides
  BY DEF Sides
<1>2. \A s \in Sides : p[s] \in Seq(Nat) /\ p[s] # None
  BY AddressesAssumption
<1>3. \A s \in Sides : Text(p[s]) = p[s]
  BY <1>2 DEF Text
<1>4. PayoutText(p) = p[Lessor] \o p[Lessee]
  BY <1>1, <1>3 DEF PayoutText
<1>5. QED BY <1>1, <1>2, <1>3, <1>4

(* Equal signatures of one user were made over the same option, the same   *)
(* details and payout addresses that are written the same.                 *)
LEMMA SignatureFixes ==
    ASSUME NEW o \in Options, NEW d \in Details, NEW p \in [Sides -> Addresses],
           NEW o2 \in Options, NEW d2 \in Details, NEW p2 \in [Sides -> Addresses],
           NEW s \in Sides,
           ComputeDealSignature(o, d, s, p) = ComputeDealSignature(o2, d2, s, p2)
    PROVE  o = o2 /\ d = d2 /\ PayoutText(p) = PayoutText(p2)
<1>1. /\ EncodeOption(o) = EncodeOption(o2) /\ d = d2
      /\ UserId[s] \o PayoutText(p) = UserId[s] \o PayoutText(p2)
  BY DEF ComputeDealSignature
<1>2. o = o2
  BY <1>1, EncodeOptionInjective
<1>3. UserId[s] \in Seq(Nat)
  <2>1. UserId[s] \in Seq(0..9)
    BY AddressesAssumption, SidesAssumption
  <2>2. QED BY <2>1
<1>4. PayoutText(p) = PayoutText(p2)
  BY <1>1, <1>3, TextOfAddresses, PrefixCancel
<1>5. QED BY <1>1, <1>2, <1>4

-----------------------------------------------------------------------------
(* Creating the draft establishes the invariant.                           *)
LEMMA ApprovalInvInit == Init => ApprovalInv
BY SidesAssumption
   DEF Init, ApprovalInv, TypeOK, SignaturesAttested, PayoutsKept, CreateDeal, Idle,
       RequestState, Payouts

(* No handler step breaks the invariant.                                   *)
LEMMA ApprovalInvNext == ApprovalInv /\ [Next]_vars => ApprovalInv'
<1> SUFFICES ASSUME ApprovalInv, [Next]_vars PROVE ApprovalInv'
  OBVIOUS
<1> USE DEF ApprovalInv
<1>1. ASSUME NEW u \in Users, SetWallet(u) \/ DisconnectWallet(u)
      PROVE  ApprovalInv'
  BY <1>1 DEF SetWallet, DisconnectWallet, Serve, TypeOK, SignaturesAttested,
              PayoutsKept, Attested
<1>2. ASSUME NEW u \in Users, SetDealPayoutAddress(u) PROVE ApprovalInv'
  <2>1. /\ u \in Sides /\ deal.status = "draft"
        /\ UNCHANGED <<wallet, req, attested>> /\ served' \in Nat
    BY <1>2 DEF SetDealPayoutAddress, Serve, EditableBy, TypeOK
  <2>2. PICK a \in Addresses : deal' = [deal EXCEPT !.payout[u] = a]
    BY <1>2 DEF SetDealPayoutAddress
  <2>3. a # None
    BY AddressesAssumption
  <2>4. deal.payout \in [Sides -> Addresses \cup {None}]
    BY DEF TypeOK, Payouts
  <2>5. /\ deal'.payout = [deal.payout EXCEPT ![u] = a]
        /\ deal'.signature = deal.signature /\ deal'.status = deal.status
    BY <2>2 DEF TypeOK
  <2>6. \A t \in Sides : deal.payout[t] # None => deal'.payout[t] # None
    BY <2>3, <2>4, <2>5
  <2>7. TypeOK'
    BY <2>1, <2>2, <2>4 DEF TypeOK, Payouts
  <2>8. SignaturesAttested' /\ PayoutsKept'
    BY <2>1, <2>5, <2>6 DEF SignaturesAttested, Attested, PayoutsKept
  <2>9. QED BY <2>1, <2>5, <2>7, <2>8
<1>3. ASSUME NEW u \in Users, RejectDeal(u) PROVE ApprovalInv'
  BY <1>3 DEF RejectDeal, Serve, EditableBy, TypeOK, SignaturesAttested,
              PayoutsKept, Attested
<1>4. ASSUME NEW r \in Requests, NEW u \in Users, ReadDraft(r, u)
      PROVE  ApprovalInv'
  BY <1>4 DEF ReadDraft, Serve, TypeOK, RequestState, SignaturesAttested,
              PayoutsKept, Attested
<1>5. ASSUME NEW r \in Requests, NEW u \in Users, SignDeal(r, u)
      PROVE  ApprovalInv'
  BY <1>5 DEF SignDeal, Serve, TypeOK, RequestState, SignaturesAttested,
              PayoutsKept, Attested
<1>6. ASSUME NEW r \in Requests, UpdateDealDraft(r) PROVE ApprovalInv'
  <2>1. /\ req[r] \in [op : {"update"}, user : Users, option : Options,
                       details : Details]
        /\ req' = [req EXCEPT ![r] = Idle] /\ UNCHANGED <<wallet, attested, served>>
    BY <1>6 DEF UpdateDealDraft, TypeOK, RequestState, Idle
  <2>2. TypeOK' /\ (deal.status # "draft" => UNCHANGED deal)
    BY <1>6, <2>1 DEF UpdateDealDraft, EditableBy, TypeOK, RequestState
  <2>3. SignaturesAttested'
    BY <1>6, <2>1 DEF UpdateDealDraft, TypeOK, SignaturesAttested, Attested, Idle
  <2>4. PayoutsKept'
    BY <1>6, <2>1 DEF UpdateDealDraft, TypeOK, PayoutsKept, Idle
  <2>5. deal'.status = deal.status
    BY <1>6 DEF UpdateDealDraft, TypeOK
  <2>6. QED BY <2>2, <2>3, <2>4, <2>5 DEF DealSignaturesMatch
<1>7. ASSUME NEW r \in Requests, CheckWallet(r) PROVE ApprovalInv'
  <2> DEFINE q   == req[r]
             sig == ComputeDealSignature(q.option, q.details, q.user, q.payout)
             c   == [user |-> q.user, option |-> q.option, details |-> q.details,
                     payout |-> q.payout, wallet |-> wallet[q.user]]
  <2>1. /\ q \in [op : {"sign"}, user : Users, option : Options,
                  details : Details, payout : Payouts]
        /\ UNCHANGED <<deal, wallet, served>>
    BY <1>7 DEF CheckWallet, TypeOK, RequestState, Idle
  <2>2. CASE ~MaySign(q)
    <3>1. req' = [req EXCEPT ![r] = Idle] /\ UNCHANGED attested
      BY <1>7, <2>2 DEF CheckWallet
    <3>2. QED
      BY <2>1, <3>1 DEF TypeOK, RequestState, SignaturesAttested, Attested,
                        PayoutsKept, Idle, DealSignaturesMatch
  <2>3. CASE MaySign(q)
    <3>1. /\ req' = [req EXCEPT ![r] = [op |-> "signed", user |-> q.user,
                                        signature |-> sig]]
          /\ attested' = attested \cup {c}
      BY <1>7, <2>3 DEF CheckWallet
    <3>2. q.payout \in [Sides -> Addresses] /\ wallet[q.user] \in Addresses
      BY <2>1, <2>3 DEF MaySign, TypeOK, Sides, Payouts
    <3>3. sig \in Signatures
      BY <2>1, <3>2, SignatureType
    <3>4. TypeOK'
      BY <2>1, <3>1, <3>2, <3>3 DEF TypeOK, RequestState
    <3>5. PICK g \in Signatures : g = sig
      BY <3>3
    <3>6. /\ c.user = q.user /\ c.details \notin BlankDetails
          /\ g = ComputeDealSignature(c.option, c.details, q.user, c.payout)
          /\ q.user \in Sides => c.wallet = c.payout[q.user]
      BY <2>1, <2>3, <3>5 DEF MaySign, Sides
    <3>7. c \in attested'
      BY <3>1
    <3>8. PICK v \in Users : v = q.user
      BY <2>1
    <3>9. Attested(g, v)'
      <4>1. PICK k \in attested' : k = c
        BY <3>7
      <4>2. /\ k.user = v /\ k.details \notin BlankDetails
            /\ g = ComputeDealSignature(k.option, k.details, v, k.payout)
            /\ v \in Sides => k.wallet = k.payout[v]
        BY <3>6, <3>8, <4>1
      <4>3. QED BY <4>2 DEF Attested
    <3>10. \A x, u : Attested(x, u) => Attested(x, u)'
      BY <3>1 DEF Attested
    <3>11. \A s \in Sides :
             deal'.signature[s] # None => Attested(deal.signature[s], s)'
      BY <2>1, <3>10 DEF SignaturesAttested
    <3>12. ASSUME NEW x \in Requests, req'[x].op = "signed"
           PROVE  Attested(req[x].signature, req[x].user)'
      <4>1. CASE x = r
        <5>1. req'[x].signature = g /\ req'[x].user = v
          BY <3>1, <3>5, <3>8, <4>1 DEF TypeOK
        <5>2. QED BY <5>1, <3>9
      <4>2. CASE x # r
        <5>1. req'[x] = req[x]
          BY <3>1, <4>2 DEF TypeOK
        <5>2. Attested(req[x].signature, req[x].user)
          BY <5>1, <3>12 DEF SignaturesAttested
        <5>3. QED BY <5>1, <5>2, <3>10
      <4>3. QED BY <4>1, <4>2
    <3>13. SignaturesAttested'
      BY <3>11, <3>12 DEF SignaturesAttested
    <3>14. PayoutsKept'
      <4>1. \A t \in Sides : deal.payout[t] # None
        BY <2>1, <2>3 DEF PayoutsKept, MaySign
      <4>2. QED BY <2>1, <3>1, <4>1 DEF PayoutsKept, TypeOK
    <3>15. QED BY <2>1, <3>4, <3>13, <3>14 DEF DealSignaturesMatch
  <2>4. QED BY <2>2, <2>3
<1>8. ASSUME NEW r \in Requests, SignDealInTx(r) PROVE ApprovalInv'
  <2> DEFINE u == req[r].user
             d == [deal EXCEPT !.signature[u] = req[r].signature]
  <2>1. /\ req[r] \in [op : {"signed"}, user : Users, signature : Signatures]
        /\ req' = [req EXCEPT ![r] = Idle] /\ UNCHANGED <<wallet, attested, served>>
        /\ Attested(req[r].signature, u) /\ \A t \in Sides : deal.payout[t] # None
    BY <1>8 DEF SignDealInTx, TypeOK, RequestState, Idle, SignaturesAttested,
                PayoutsKept
  <2>2. \A x, v : Attested(x, v)' = Attested(x, v)
    BY <2>1 DEF Attested
  <2>3. CASE ~EditableBy(u)
    <3>1. deal' = deal
      BY <1>8, <2>3 DEF SignDealInTx
    <3>2. QED
      BY <2>1, <2>2, <3>1 DEF TypeOK, RequestState, SignaturesAttested, PayoutsKept,
                              Idle, DealSignaturesMatch
  <2>4. CASE EditableBy(u)
    <3>1. u \in Sides /\ deal' \in {d, [d EXCEPT !.status = "approved"]}
      BY <1>8, <2>4 DEF SignDealInTx, EditableBy
    <3>2. /\ TypeOK'
          /\ deal'.signature = [deal.signature EXCEPT ![u] = req[r].signature]
          /\ deal'.payout = deal.payout
      <4>1. d.signature = [deal.signature EXCEPT ![u] = req[r].signature]
        BY DEF TypeOK
      <4>2. d.signature \in [Sides -> Signatures \cup {None}]
        BY <2>1, <4>1, <3>1 DEF TypeOK
      <4>3. d = [deal EXCEPT !.signature = d.signature]
        BY <4>1 DEF TypeOK
      <4>4. d \in [status    : {"draft", "approved", "rejected"},
                   option    : Options,
                   details   : Details,
                   payout    : Payouts,
                   signature : [Sides -> Signatures \cup {None}]]
        BY <4>2, <4>3 DEF TypeOK
      <4>5. QED BY <2>1, <3>1, <4>1, <4>4 DEF TypeOK, RequestState
    <3>3. SignaturesAttested' /\ PayoutsKept'
      BY <2>1, <2>2, <3>1, <3>2 DEF SignaturesAttested, PayoutsKept, TypeOK, Idle
    <3>4. deal'.status = "approved" => DealSignaturesMatch(d)
      BY <1>8, <2>4 DEF SignDealInTx, EditableBy, TypeOK
    <3>5. DealSignaturesMatch(d) => DealSignaturesMatch(deal')
      BY <3>1 DEF DealSignaturesMatch, TypeOK
    <3>6. QED BY <3>2, <3>3, <3>4, <3>5 DEF DealSignaturesMatch
  <2>5. QED BY <2>3, <2>4
<1>9. ASSUME NEW r \in Requests, Abort(r) PROVE ApprovalInv'
  BY <1>9 DEF Abort, Idle, TypeOK, RequestState, SignaturesAttested, PayoutsKept,
              Attested
<1>10. CASE UNCHANGED vars
  BY <1>10 DEF vars, TypeOK, SignaturesAttested, PayoutsKept, Attested,
               DealSignaturesMatch
<1>11. QED
  BY <1>1, <1>2, <1>3, <1>4, <1>5, <1>6, <1>7, <1>8, <1>9, <1>10 DEF Next

(* Types of DealSigning are preserved by every request handler.            *)
THEOREM TypeCorrect == Spec => []TypeOK
<1>1. ApprovalInv => TypeOK
  BY DEF ApprovalInv
<1>2. QED BY ApprovalInvInit, ApprovalInvNext, <1>1, PTL DEF Spec

(* What an approved deal carries is what each side put its name to.        *)
LEMMA ApprovedAttested ==
    ASSUME ApprovalInv, deal.status = "approved", NEW s \in Sides
    PROVE  /\ \A t \in Sides : deal.payout[t] # None
           /\ \E c \in attested :
                /\ c.user = s /\ c.wallet = c.payout[s]
                /\ c.option = deal.option /\ c.details = deal.details
                /\ PayoutText(c.payout) = PayoutText(deal.payout)
                /\ c.details \notin BlankDetails
<1> DEFINE sig == deal.signature[s]
<1>1. /\ sig = ComputeDealSignature(deal.option, deal.details, s, deal.payout)
      /\ deal.option \in Options /\ deal.details \in Details /\ deal.payout \in Payouts
  BY DEF ApprovalInv, DealSignaturesMatch, TypeOK
<1>2. sig # None
  BY <1>1, NoSignatureAssumption, SidesAssumption
<1>3. \A t \in Sides : deal.payout[t] # None
  BY <1>2 DEF ApprovalInv, PayoutsKept
<1>4. deal.payout \in [Sides -> Addresses]
  BY <1>1, <1>3 DEF Payouts
<1>5. PICK c \in attested :
        /\ c.user = s /\ c.details \notin BlankDetails
        /\ sig = ComputeDealSignature(c.option, c.details, s, c.payout)
        /\ c.wallet = c.payout[s]
  BY <1>2 DEF ApprovalInv, SignaturesAttested, Attested
<1>6. c.option \in Options /\ c.details \in Details /\ c.payout \in [Sides -> Addresses]
  BY DEF ApprovalInv, TypeOK
<1>7. ComputeDealSignature(c.option, c.details, s, c.payout)
        = ComputeDealSignature(deal.option, deal.details, s, deal.payout)
  BY <1>1, <1>5
<1>8. /\ c.option = deal.option /\ c.details = deal.details
       /\ PayoutText(c.payout) = PayoutText(deal.payout)
  BY <1>1, <1>4, <1>6, <1>7, SignatureFixes
<1>9. QED BY <1>3, <1>5, <1>8

(* Whatever requests race, an approved deal was signed by both sides on    *)
(* the very option and details it carries, and on payout addresses that    *)
(* are written the same, each side with its own as the connected wallet.   *)
THEOREM ApprovalIsAgreed == Spec => []ApprovedOnSameTerms
<1>1. ApprovalInv => ApprovedOnSameTerms
  BY ApprovedAttested DEF ApprovedOnSameTerms
<1>2. QED BY ApprovalInvInit, ApprovalInvNext, <1>1, PTL DEF Spec

(* Sequences of one length with the same elements are the same.            *)
LEMMA SameElements ==
    ASSUME NEW S, NEW s \in Seq(S), NEW t \in Seq(S), Len(s) = Len(t),
           \A i \in 1..Len(s) : s[i] = t[i]
    PROVE  s = t
OBVIOUS

(* Texts of one length that are the same, joined in pairs, are the same.   *)
LEMMA JoinedOfOneLength ==
    ASSUME NEW a \in Seq(Nat), NEW b \in Seq(Nat), NEW c \in Seq(Nat), NEW d \in Seq(Nat),
           Len(a) = Len(c), a \o b = c \o d
    PROVE  a = c /\ b = d
<1>1. \A i \in 1..Len(a) : (a \o b)[i] = a[i] /\ (c \o d)[i] = c[i]
  OBVIOUS
<1>2. \A i \in 1..Len(a) : a[i] = c[i]
  BY <1>1
<1>3. a = c
  <2>1. Len(c) = Len(a)
    OBVIOUS
  <2>2. \A i \in 1..Len(a) : a[i] = c[i]
    BY <1>2
  <2>3. QED BY <2>1, <2>2, SameElements
<1>4. a \o b = a \o d
  BY <1>3
<1>5. QED BY <1>3, <1>4, PrefixCancel

(* Where all addresses have one length, as the raw addresses of the        *)
(* basechain have, the two payout addresses of an approved deal are the    *)
(* ones both sides signed, and those of their wallets.                     *)
THEOREM ApprovalIsAgreedInFull ==
    ASSUME \A a, b \in Addresses : Len(a) = Len(b)
    PROVE  Spec => []ApprovedOnSamePayouts
<1>1. ApprovalInv => ApprovedOnSamePayouts
  <2> SUFFICES ASSUME ApprovalInv, deal.status = "approved", NEW s \in Sides
               PROVE  \E c \in attested :
                         c.user = s /\ c.payout = deal.payout /\ c.wallet = deal.payout[s]
    BY DEF ApprovedOnSamePayouts
  <2>1. PICK c \in attested :
          /\ c.user = s /\ c.wallet = c.payout[s]
          /\ PayoutText(c.payout) = PayoutText(deal.payout)
    BY ApprovedAttested
  <2>2. c.payout \in [Sides -> Addresses] /\ deal.payout \in [Sides -> Addresses]
    BY ApprovedAttested DEF ApprovalInv, TypeOK, Payouts
  <2> DEFINE x == c.payout[Lessor]    y == c.payout[Lessee]
             v == deal.payout[Lessor] z == deal.payout[Lessee]
  <2>3. /\ x \in Seq(Nat) /\ y \in Seq(Nat) /\ v \in Seq(Nat) /\ z \in Seq(Nat)
        /\ x \o y = v \o z /\ Len(x) = Len(v)
    <3>1. Lessor \in Sides /\ Lessee \in Sides
      BY DEF Sides
    <3>2. x \in Addresses /\ v \in Addresses
      BY <2>2, <3>1
    <3>3. Len(x) = Len(v)
      BY <3>2
    <3>4. QED BY <2>1, <2>2, <3>1, <3>3, TextOfAddresses
  <2>4. x = v /\ y = z
    <3> HIDE DEF x, y, v, z
    <3>1. QED BY <2>3, JoinedOfOneLength
  <2>5. c.payout = deal.payout
    BY <2>2, <2>4 DEF Sides
  <2>6. QED BY <2>1, <2>5
<1>2. QED BY ApprovalInvInit, ApprovalInvNext, <1>1, PTL DEF Spec

(* An approved deal has both payout addresses and a message, although the  *)
(* approving transaction checks neither.                                   *)
THEOREM ApprovalIsExecutable == Spec => []ApprovedIsExecutable
<1>1. ApprovalInv => ApprovedIsExecutable
  BY ApprovedAttested, SidesAssumption DEF ApprovedIsExecutable, Sides
<1>2. QED BY ApprovalInvInit, ApprovalInvNext, <1>1, PTL DEF Spec

(* A request that was under way when the deal was approved or rejected     *)
(* leaves the row alone.                                                   *)
THEOREM ClosedDealIsFrozen == Spec => ClosedDealFrozen
<1>1. ASSUME ApprovalInv, [Next]_vars PROVE [deal.status # "draft" => UNCHANGED deal]_vars
  <2>1. CASE UNCHANGED vars
    BY <2>1 DEF vars
  <2>2. CASE Next
    BY <2>2 DEF Next, EditableBy, SetWallet, DisconnectWallet,
           SetDealPayoutAddress, RejectDeal, ReadDraft, UpdateDealDraft,
           SignDeal, CheckWallet, SignDealInTx, Abort
  <2>3. QED BY <1>1, <2>1, <2>2
<1>2. QED BY ApprovalInvInit, ApprovalInvNext, <1>1, PTL DEF Spec, ClosedDealFrozen
=============================================================================
