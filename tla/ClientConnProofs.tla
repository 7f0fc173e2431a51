-------------------------- MODULE ClientConnProofs --------------------------
(***************************************************************************)
(* Type correctness of ClientConn, for any calls, any capacity of the Done *)
(* channels and any bound on the sequence numbers, and its safety          *)
(* properties, from the inductive invariant IndInv.  KeepsInv is shown for *)
(* each action on its own.                                                 *)
(***************************************************************************)
EXTENDS ClientConn, TLAPS

-----------------------------------------------------------------------------
(* The types. *)

\* Every Done channel can hold a call: call() makes one of capacity 1 and Go
\* refuses a channel without a buffer.
LEMMA CapPositive == \A c \in Calls : Cap(c) \in Nat /\ Cap(c) > 0
BY ConnAssumption DEF Cap

\* Storing an error of the code in some calls and sending them to their Done
\* channels keeps the types, and leaves something in those channels.
LEMMA CompleteType ==
  ASSUME TypeOK, NEW S, NEW e \in Errors, Complete(S, e)
  PROVE  /\ err' \in [Calls -> Errors]
         /\ done' \in [Calls -> Nat]
         /\ \A c \in Calls : done'[c] <= Cap(c)
         /\ \A c \in Calls : c \in S => err'[c] = e /\ done'[c] > 0
         /\ \A c \in Calls : c \notin S => err'[c] = err[c]
                                           /\ done'[c] = done[c]
         /\ \A c \in Calls : done'[c] >= done[c]
BY CapPositive DEF TypeOK, Complete

-----------------------------------------------------------------------------
(* Type correctness. *)

\* A new connection has variables of their types.
LEMMA TypeInit == Init => TypeOK
<1> SUFFICES ASSUME Init PROVE TypeOK
  OBVIOUS
<1>1. closing \in BOOLEAN /\ shutdown \in BOOLEAN /\ beating \in BOOLEAN
      /\ connOpen \in BOOLEAN /\ userClosed \in BOOLEAN
  BY Zenon DEF Init
<1> QED BY <1>1, ConnAssumption, CapPositive
        DEF Init, TypeOK, Seqs, Errors, NoError

\* Every step of a connection keeps the types.
LEMMA TypeStep == TypeOK /\ [Next]_vars => TypeOK'
<1> SUFFICES ASSUME TypeOK, [Next]_vars PROVE TypeOK'
  OBVIOUS
<1> USE ConnAssumption, SMTT(20)
        DEF Goto, tableVars, callVars, callerVars, readerVars, closeVars,
            netVars
<1>1. ASSUME NEW c \in Calls, Start(c) PROVE TypeOK'
  BY <1>1 DEF TypeOK, Start, Cap
<1>2. ASSUME NEW c \in Calls, Tick(c) PROVE TypeOK'
  BY <1>2 DEF TypeOK, Tick, Dead, Cap
<1>3. ASSUME NEW c \in Calls, Refuse(c) PROVE TypeOK'
  <2>1. PICK e \in Errors : Complete({c}, e)
    BY <1>3 DEF Refuse, Errors
  <2> QED BY <1>3, <2>1, CompleteType DEF TypeOK, Refuse, Cap
<1>4. ASSUME NEW c \in Calls, Register(c) PROVE TypeOK'
  BY <1>4 DEF TypeOK, Register, Seqs, Cap
<1>5. ASSUME NEW c \in Calls, Encode(c) PROVE TypeOK'
  BY <1>5 DEF TypeOK, Encode, Cap
<1>6. ASSUME NEW c \in Calls, EncodeFails(c) PROVE TypeOK'
  <2>1. PICK e \in Errors : Complete({c}, e)
    BY <1>6 DEF EncodeFails, Errors
  <2> QED BY <1>6, <2>1, CompleteType DEF TypeOK, EncodeFails, Cap
<1>7. ASSUME NEW c \in Calls, Write(c) PROVE TypeOK'
  BY <1>7 DEF TypeOK, Write, Request, Cap
<1>8. ASSUME NEW c \in Calls, WriteFails(c) PROVE TypeOK'
  <2>1. PICK e \in Errors : Complete({pending[mySeq[c]]}, e)
    BY <1>8 DEF WriteFails, Errors
  <2> QED BY <1>8, <2>1, CompleteType DEF TypeOK, WriteFails, Cap
<1>9. ASSUME NEW c \in Calls, Receive(c) PROVE TypeOK'
  BY <1>9, CapPositive DEF TypeOK, Receive, Cap
<1>10. ASSUME NEW c \in Calls, Cancel(c) PROVE TypeOK'
  <2>1. PICK e \in Errors : Complete({pending[0]}, e)
    BY <1>10 DEF Cancel, Errors
  <2> QED BY <1>10, <2>1, CompleteType DEF TypeOK, Cancel, Cap, Errors, Seqs
<1>11. ASSUME NEW m \in responses, ReadResponse(m) PROVE TypeOK'
  BY <1>11 DEF TypeOK, ReadResponse, Response, Cap
<1>12. CASE Deliver
  <2>1. PICK e \in Errors : Complete({held}, e)
    BY <1>12 DEF TypeOK, Deliver, Errors
  <2> QED BY <1>12, <2>1, CompleteType DEF TypeOK, Deliver, Cap
<1>13. CASE ReadFails
  BY <1>13 DEF TypeOK, ReadFails, Cap
<1>14. CASE Drain
  <2>1. PICK e \in Errors : Complete(Pending, e)
    BY <1>14 DEF TypeOK, Drain, Errors
  <2> QED BY <1>14, <2>1, CompleteType DEF TypeOK, Drain, Cap
<1>15. CASE Close
  BY <1>15 DEF TypeOK, Close, Cap
<1>16. CASE CloseTable
  <2>1. PICK e \in Errors : Complete(Pending, e)
    BY <1>16 DEF CloseTable, Errors
  <2> QED BY <1>16, <2>1, CompleteType DEF TypeOK, CloseTable, Cap
<1>17. CASE CloseConn
  <2>1. connOpen' \in BOOLEAN
    BY <1>17, Zenon DEF CloseConn
  <2> QED BY <1>17, <2>1 DEF TypeOK, CloseConn, Cap
<1>18. ASSUME NEW r \in requests, Handle(r) PROVE TypeOK'
  BY <1>18 DEF TypeOK, Handle, Request, Response, Cap
<1>19. CASE PeerCloses
  BY <1>19 DEF TypeOK, PeerCloses, Cap
<1>20. CASE LinkBreaks
  BY <1>20 DEF TypeOK, LinkBreaks, Cap
<1>21. CASE UNCHANGED vars
  BY <1>21 DEF TypeOK, vars, Cap
<1> QED BY <1>1, <1>2, <1>3, <1>4, <1>5, <1>6, <1>7, <1>8, <1>9, <1>10,
           <1>11, <1>12, <1>13, <1>14, <1>15, <1>16, <1>17, <1>18, <1>19,
           <1>20, <1>21 DEF Next, Caller, Reader, Closer, Environment

\* The type invariant holds in every behaviour; in particular a Done channel
\* never holds more than its capacity.
THEOREM TypeCorrect == Spec => []TypeOK
BY TypeInit, TypeStep, PTL DEF Spec

-----------------------------------------------------------------------------
(* The inductive invariant. *)

\* The invariant holds of a new connection.
LEMMA IndInit == Init => IndInv
<1> SUFFICES ASSUME Init PROVE IndInv
  OBVIOUS
<1>1. TypeOK
  BY TypeInit
<1> QED BY <1>1 DEF Init, IndInv, TableInv, FreshInv, SlotInv, MsgInv,
                    HeldInv, AnsweredInv, DoneInv, OkInv, NoLostCall,
                    InFlight, NoCallAfterReader, Pending

\* What a step has to show: it preserves the inductive invariant.  TypeStep
\* already covers the types.
SafeInv ==
    /\ TableInv /\ FreshInv /\ SlotInv /\ MsgInv /\ HeldInv /\ AnsweredInv
    /\ DoneInv /\ OkInv /\ NoLostCall /\ NoCallAfterReader
KeepsInv == IndInv => SafeInv'

\* Deleting an entry of the table removes one call from it: a call has one
\* sequence number.
LEMMA DeleteEntry ==
  ASSUME TypeOK, TableInv, NEW s \in Seqs,
         pending' = [pending EXCEPT ![s] = nil]
  PROVE  /\ pending[s] \in Pending \cup {nil}
         /\ Pending' = Pending \ {pending[s]}
         /\ \A t \in Seqs : pending'[t] \in {pending[t], nil}
BY ConnAssumption DEF TypeOK, TableInv, Pending

\* A step that leaves the table alone leaves the pending calls alone.
LEMMA SameTable == pending' = pending => Pending' = Pending
BY DEF Pending

\* The parts of the invariant, for the steps below.
LEMMA Parts ==
  IndInv => /\ TypeOK /\ TableInv /\ FreshInv /\ SlotInv /\ MsgInv /\ HeldInv
            /\ AnsweredInv /\ DoneInv /\ OkInv /\ NoLostCall
            /\ NoCallAfterReader /\ Pending \subseteq Calls
BY DEF IndInv, Pending

\* A user calls Go or CallDirect and enters send.
LEMMA IndStart == \A c \in Calls : Start(c) => KeepsInv
<1> SUFFICES ASSUME IndInv, NEW c \in Calls, Start(c) PROVE SafeInv'
  BY DEF KeepsInv
<1> USE ConnAssumption, SMTT(20)
        DEF Goto, tableVars, callVars, callerVars, readerVars, closeVars,
            netVars, Unregistered, Sent, GaveUp, InFlight
<1>0. /\ TypeOK /\ TableInv /\ FreshInv /\ SlotInv /\ MsgInv /\ HeldInv
      /\ AnsweredInv /\ DoneInv /\ OkInv /\ NoLostCall /\ NoCallAfterReader
      /\ Pending \subseteq Calls
  BY Parts
<1>1. Pending' = Pending
  BY SameTable, Zenon DEF Start
<1>2. TableInv' /\ FreshInv' /\ SlotInv' /\ MsgInv'
  BY <1>0, <1>1 DEF Start, TypeOK, TableInv, FreshInv, SlotInv, MsgInv
<1>3. HeldInv' /\ AnsweredInv' /\ DoneInv'
  BY <1>0, <1>1 DEF Start, TypeOK, HeldInv, MsgInv, AnsweredInv, DoneInv
<1>4. OkInv' /\ NoLostCall' /\ NoCallAfterReader'
  BY <1>0, <1>1 DEF Start, TypeOK, OkInv, NoLostCall, NoCallAfterReader
<1> QED BY <1>2, <1>3, <1>4 DEF SafeInv

\* A tick of heartbeat begins a call or ends the heartbeats.
LEMMA IndTick == \A c \in Calls : Tick(c) => KeepsInv
<1> SUFFICES ASSUME IndInv, NEW c \in Calls, Tick(c) PROVE SafeInv'
  BY DEF KeepsInv
<1> USE ConnAssumption, SMTT(20)
        DEF Goto, tableVars, callVars, callerVars, readerVars, closeVars,
            netVars, Unregistered, Sent, GaveUp, InFlight
<1>0. /\ TypeOK /\ TableInv /\ FreshInv /\ SlotInv /\ MsgInv /\ HeldInv
      /\ AnsweredInv /\ DoneInv /\ OkInv /\ NoLostCall /\ NoCallAfterReader
      /\ Pending \subseteq Calls
  BY Parts
<1>1. Pending' = Pending
  BY SameTable, Zenon DEF Tick
<1>2. TableInv' /\ FreshInv' /\ SlotInv' /\ MsgInv'
  BY <1>0, <1>1 DEF Tick, TypeOK, TableInv, FreshInv, SlotInv, MsgInv
<1>3. HeldInv' /\ AnsweredInv' /\ DoneInv'
  BY <1>0, <1>1 DEF Tick, TypeOK, HeldInv, MsgInv, AnsweredInv, DoneInv, Dead
<1>4. OkInv' /\ NoLostCall' /\ NoCallAfterReader'
  BY <1>0, <1>1 DEF Tick, TypeOK, OkInv, NoLostCall, NoCallAfterReader, Dead
<1> QED BY <1>2, <1>3, <1>4 DEF SafeInv

\* send refuses a call on a connection that is down, or for its codec.
LEMMA IndRefuse == \A c \in Calls : Refuse(c) => KeepsInv
<1> SUFFICES ASSUME IndInv, NEW c \in Calls, Refuse(c) PROVE SafeInv'
  BY DEF KeepsInv
<1> USE ConnAssumption, SMTT(20)
        DEF Goto, tableVars, callVars, callerVars, readerVars, closeVars,
            netVars, Unregistered, Sent, GaveUp, InFlight
<1>0. /\ TypeOK /\ TableInv /\ FreshInv /\ SlotInv /\ MsgInv /\ HeldInv
      /\ AnsweredInv /\ DoneInv /\ OkInv /\ NoLostCall /\ NoCallAfterReader
      /\ Pending \subseteq Calls
  BY Parts
<1>1. PICK e \in Errors \ {NoError} : Complete({c}, e)
  BY <1>0 DEF Refuse, Errors, NoError
<1>2. /\ \A d \in Calls : d \in {c} => err'[d] = e /\ done'[d] > 0
      /\ \A d \in Calls : d \notin {c} => err'[d] = err[d]
                                       /\ done'[d] = done[d]
      /\ \A d \in Calls : done'[d] >= done[d]
  BY <1>0, <1>1, CompleteType
<1>3. Pending' = Pending
  BY SameTable, Zenon DEF Refuse
<1>4. TableInv' /\ FreshInv' /\ SlotInv' /\ MsgInv'
  BY <1>0, <1>2, <1>3 DEF Refuse, TypeOK, TableInv, FreshInv, SlotInv, MsgInv
<1>5. HeldInv' /\ AnsweredInv' /\ DoneInv'
  BY <1>0, <1>2, <1>3 DEF Refuse, TypeOK, HeldInv, MsgInv, AnsweredInv,
       DoneInv, TableInv, Pending
<1>6. OkInv' /\ NoLostCall' /\ NoCallAfterReader'
  BY <1>0, <1>2, <1>3 DEF Refuse, TypeOK, OkInv, NoError, NoLostCall,
       NoCallAfterReader
<1> QED BY <1>4, <1>5, <1>6 DEF SafeInv

\* send enters a call into the table under a fresh sequence number.
LEMMA IndRegister == \A c \in Calls : Register(c) => KeepsInv
<1> SUFFICES ASSUME IndInv, NEW c \in Calls, Register(c) PROVE SafeInv'
  BY DEF KeepsInv
<1> USE ConnAssumption, SMTT(20)
        DEF Goto, tableVars, callVars, callerVars, readerVars, closeVars,
            netVars, Unregistered, Sent, GaveUp, InFlight
<1>0. /\ TypeOK /\ TableInv /\ FreshInv /\ SlotInv /\ MsgInv /\ HeldInv
      /\ AnsweredInv /\ DoneInv /\ OkInv /\ NoLostCall /\ NoCallAfterReader
      /\ Pending \subseteq Calls
  BY Parts
<1>1. Pending' = Pending \cup {c}
  BY <1>0 DEF Register, TypeOK, TableInv, Pending, Seqs
<1>2. TableInv' /\ FreshInv' /\ SlotInv' /\ MsgInv'
  BY <1>0, <1>1 DEF Register, TypeOK, TableInv, Seqs, Dead, FreshInv,
       SlotInv, MsgInv, Request, Response
<1>3. HeldInv' /\ AnsweredInv' /\ DoneInv'
  BY <1>0, <1>1 DEF Register, TypeOK, HeldInv, MsgInv, AnsweredInv, DoneInv,
       FreshInv
<1>4. OkInv' /\ NoLostCall' /\ NoCallAfterReader'
  BY <1>0, <1>1 DEF Register, TypeOK, OkInv, NoLostCall, NoCallAfterReader,
       Dead
<1> QED BY <1>2, <1>3, <1>4 DEF SafeInv

\* send encodes the request of its call.
LEMMA IndEncode == \A c \in Calls : Encode(c) => KeepsInv
<1> SUFFICES ASSUME IndInv, NEW c \in Calls, Encode(c) PROVE SafeInv'
  BY DEF KeepsInv
<1> USE ConnAssumption, SMTT(20)
        DEF Goto, tableVars, callVars, callerVars, readerVars, closeVars,
            netVars, Unregistered, Sent, GaveUp, InFlight
<1>0. /\ TypeOK /\ TableInv /\ FreshInv /\ SlotInv /\ MsgInv /\ HeldInv
      /\ AnsweredInv /\ DoneInv /\ OkInv /\ NoLostCall /\ NoCallAfterReader
      /\ Pending \subseteq Calls
  BY Parts
<1>1. Pending' = Pending
  BY SameTable, Zenon DEF Encode
<1>2. TableInv' /\ FreshInv' /\ SlotInv' /\ MsgInv'
  BY <1>0, <1>1 DEF Encode, TypeOK, TableInv, FreshInv, SlotInv, MsgInv
<1>3. HeldInv' /\ AnsweredInv' /\ DoneInv'
  BY <1>0, <1>1 DEF Encode, TypeOK, HeldInv, MsgInv, AnsweredInv, DoneInv
<1>4. OkInv' /\ NoLostCall' /\ NoCallAfterReader'
  BY <1>0, <1>1 DEF Encode, TypeOK, OkInv, NoLostCall, NoCallAfterReader
<1> QED BY <1>2, <1>3, <1>4 DEF SafeInv

\* send completes a call whose arguments cannot be encoded, which stays in the table.
LEMMA IndEncodeFails == \A c \in Calls : EncodeFails(c) => KeepsInv
<1> SUFFICES ASSUME IndInv, NEW c \in Calls, EncodeFails(c) PROVE SafeInv'
  BY DEF KeepsInv
<1> USE ConnAssumption, SMTT(20)
        DEF Goto, tableVars, callVars, callerVars, readerVars, closeVars,
            netVars, Unregistered, Sent, GaveUp, InFlight
<1>0. /\ TypeOK /\ TableInv /\ FreshInv /\ SlotInv /\ MsgInv /\ HeldInv
      /\ AnsweredInv /\ DoneInv /\ OkInv /\ NoLostCall /\ NoCallAfterReader
      /\ Pending \subseteq Calls
  BY Parts
<1>1. PICK e \in Errors \ {NoError} : Complete({c}, e)
  BY <1>0 DEF EncodeFails, Errors, NoError
<1>2. /\ \A d \in Calls : d \in {c} => err'[d] = e /\ done'[d] > 0
      /\ \A d \in Calls : d \notin {c} => err'[d] = err[d]
                                       /\ done'[d] = done[d]
      /\ \A d \in Calls : done'[d] >= done[d]
  BY <1>0, <1>1, CompleteType
<1>3. Pending' = Pending
  BY SameTable, Zenon DEF EncodeFails
<1>4. TableInv' /\ FreshInv' /\ SlotInv' /\ MsgInv'
  BY <1>0, <1>2, <1>3 DEF EncodeFails, TypeOK, TableInv, FreshInv, SlotInv,
       MsgInv
<1>5. HeldInv' /\ AnsweredInv' /\ DoneInv'
  BY <1>0, <1>2, <1>3 DEF EncodeFails, TypeOK, HeldInv, MsgInv, AnsweredInv,
       DoneInv
<1>6. OkInv' /\ NoLostCall' /\ NoCallAfterReader'
  BY <1>0, <1>2, <1>3 DEF EncodeFails, TypeOK, OkInv, NoLostCall,
       NoCallAfterReader
<1> QED BY <1>4, <1>5, <1>6 DEF SafeInv

\* send writes the request of its call.
LEMMA IndWrite == \A c \in Calls : Write(c) => KeepsInv
<1> SUFFICES ASSUME IndInv, NEW c \in Calls, Write(c) PROVE SafeInv'
  BY DEF KeepsInv
<1> USE ConnAssumption, SMTT(20)
        DEF Goto, tableVars, callVars, callerVars, readerVars, closeVars,
            netVars, Unregistered, Sent, GaveUp, InFlight
<1>0. /\ TypeOK /\ TableInv /\ FreshInv /\ SlotInv /\ MsgInv /\ HeldInv
      /\ AnsweredInv /\ DoneInv /\ OkInv /\ NoLostCall /\ NoCallAfterReader
      /\ Pending \subseteq Calls
  BY Parts
<1>1. Pending' = Pending
  BY SameTable, Zenon DEF Write
<1>2. c \notin handled
  BY <1>0, Zenon DEF Write, MsgInv
<1>3. requests' \subseteq requests \cup {[seq |-> mySeq[c], call |-> c]}
  BY DEF Write
<1>4. TableInv' /\ FreshInv' /\ SlotInv' /\ MsgInv'
  BY <1>0, <1>1, <1>2, <1>3 DEF Write, TypeOK, TableInv, FreshInv, SlotInv,
       MsgInv
<1>5. HeldInv' /\ AnsweredInv' /\ DoneInv'
  BY <1>0, <1>1, <1>2, <1>3 DEF Write, TypeOK, HeldInv, AnsweredInv, MsgInv,
       DoneInv
<1>6. OkInv' /\ NoLostCall' /\ NoCallAfterReader'
  BY <1>0, <1>1, <1>2, <1>3 DEF Write, TypeOK, OkInv, NoLostCall,
       NoCallAfterReader
<1> QED BY <1>4, <1>5, <1>6 DEF SafeInv

\* send fails to write, and completes the call with its sequence number.
LEMMA IndWriteFails == \A c \in Calls : WriteFails(c) => KeepsInv
<1> SUFFICES ASSUME IndInv, NEW c \in Calls, WriteFails(c) PROVE SafeInv'
  BY DEF KeepsInv
<1> USE ConnAssumption, SMTT(20)
        DEF Goto, tableVars, callVars, callerVars, readerVars, closeVars,
            netVars, Unregistered, Sent, GaveUp, InFlight
<1>0. /\ TypeOK /\ TableInv /\ FreshInv /\ SlotInv /\ MsgInv /\ HeldInv
      /\ AnsweredInv /\ DoneInv /\ OkInv /\ NoLostCall /\ NoCallAfterReader
      /\ Pending \subseteq Calls
  BY Parts
<1>1. PICK e \in Errors \ {NoError} : Complete({pending[mySeq[c]]}, e)
  BY ONLY WriteFails(c), Zenon DEF WriteFails, Errors, NoError
<1>2. /\ \A d \in Calls : d \in {pending[mySeq[c]]} => err'[d] = e /\ done'[d] > 0
      /\ \A d \in Calls : d \notin {pending[mySeq[c]]} => err'[d] = err[d]
                                       /\ done'[d] = done[d]
      /\ \A d \in Calls : done'[d] >= done[d]
  BY <1>0, <1>1, CompleteType, Zenon
<1>3. mySeq[c] \in Seqs
  BY <1>0 DEF TypeOK
<1>4. /\ pending[mySeq[c]] \in Pending \cup {nil}
      /\ Pending' = Pending \ {pending[mySeq[c]]}
      /\ \A t \in Seqs : pending'[t] \in {pending[t], nil}
  <2>1. pending' = [pending EXCEPT ![mySeq[c]] = nil]
    BY Zenon DEF WriteFails
  <2> QED BY <1>0, <1>3, <2>1, DeleteEntry, Zenon
<1>5. TableInv' /\ FreshInv' /\ SlotInv' /\ MsgInv'
  BY <1>0, <1>2, <1>3, <1>4 DEF WriteFails, TypeOK, TableInv, FreshInv,
       Pending, SlotInv, MsgInv
<1>6. HeldInv' /\ AnsweredInv' /\ DoneInv'
  BY <1>0, <1>2, <1>3, <1>4 DEF WriteFails, TypeOK, HeldInv, AnsweredInv,
       MsgInv, DoneInv
<1>7. OkInv' /\ NoLostCall' /\ NoCallAfterReader'
  BY <1>0, <1>2, <1>3, <1>4 DEF WriteFails, TypeOK, OkInv, NoLostCall,
       NoCallAfterReader
<1> QED BY <1>5, <1>6, <1>7 DEF SafeInv

\* A caller receives its call from the Done channel.
LEMMA IndReceive == \A c \in Calls : Receive(c) => KeepsInv
<1> SUFFICES ASSUME IndInv, NEW c \in Calls, Receive(c) PROVE SafeInv'
  BY DEF KeepsInv
<1> USE ConnAssumption, SMTT(20)
        DEF Goto, tableVars, callVars, callerVars, readerVars, closeVars,
            netVars, Unregistered, Sent, GaveUp, InFlight
<1>0. /\ TypeOK /\ TableInv /\ FreshInv /\ SlotInv /\ MsgInv /\ HeldInv
      /\ AnsweredInv /\ DoneInv /\ OkInv /\ NoLostCall /\ NoCallAfterReader
      /\ Pending \subseteq Calls
  BY Parts
<1>1. Pending' = Pending
  BY SameTable, Zenon DEF Receive
<1>2. TableInv' /\ FreshInv' /\ SlotInv' /\ MsgInv'
  BY <1>0, <1>1 DEF Receive, TypeOK, TableInv, FreshInv, SlotInv, MsgInv
<1>3. HeldInv' /\ AnsweredInv' /\ DoneInv'
  BY <1>0, <1>1 DEF Receive, TypeOK, HeldInv, AnsweredInv, MsgInv, DoneInv
<1>4. OkInv' /\ NoLostCall' /\ NoCallAfterReader'
  BY <1>0, <1>1 DEF Receive, TypeOK, OkInv, NoLostCall, NoCallAfterReader
<1> QED BY <1>2, <1>3, <1>4 DEF SafeInv

\* A caller gives up through its context.
LEMMA IndCancel == \A c \in Calls : Cancel(c) => KeepsInv
<1> SUFFICES ASSUME IndInv, NEW c \in Calls, Cancel(c) PROVE SafeInv'
  BY DEF KeepsInv
<1> USE ConnAssumption, SMTT(20)
        DEF Goto, tableVars, callVars, callerVars, readerVars, closeVars,
            netVars, Unregistered, Sent, GaveUp, InFlight
<1>0. /\ TypeOK /\ TableInv /\ FreshInv /\ SlotInv /\ MsgInv /\ HeldInv
      /\ AnsweredInv /\ DoneInv /\ OkInv /\ NoLostCall /\ NoCallAfterReader
      /\ Pending \subseteq Calls
  BY Parts
<1>1. PICK e \in Errors \ {NoError} : Complete({pending[0]}, e)
  BY <1>0, Zenon DEF Cancel, Errors, NoError
<1>2. /\ \A d \in Calls : d \in {pending[0]} => err'[d] = e /\ done'[d] > 0
      /\ \A d \in Calls : d \notin {pending[0]} => err'[d] = err[d]
                                       /\ done'[d] = done[d]
      /\ \A d \in Calls : done'[d] >= done[d]
  BY <1>0, <1>1, CompleteType
<1>3. 0 \in Seqs
  BY <1>0 DEF Seqs
<1>4. /\ pending[0] \in Pending \cup {nil}
      /\ Pending' = Pending \ {pending[0]}
      /\ \A t \in Seqs : pending'[t] \in {pending[t], nil}
  <2>1. pending' = [pending EXCEPT ![0] = nil]
    BY DEF Cancel
  <2> QED BY <1>0, <1>3, <2>1, DeleteEntry, Zenon
<1>5. TableInv' /\ FreshInv' /\ SlotInv' /\ MsgInv'
  BY <1>0, <1>2, <1>3, <1>4 DEF Cancel, TypeOK, TableInv, FreshInv, Pending,
       SlotInv, MsgInv
<1>6. HeldInv' /\ AnsweredInv' /\ DoneInv'
  BY <1>0, <1>2, <1>3, <1>4 DEF Cancel, TypeOK, HeldInv, AnsweredInv, MsgInv,
       DoneInv
<1>7. OkInv' /\ NoLostCall' /\ NoCallAfterReader'
  BY <1>0, <1>2, <1>3, <1>4 DEF Cancel, TypeOK, OkInv, NoError, NoLostCall,
       NoCallAfterReader
<1> QED BY <1>5, <1>6, <1>7 DEF SafeInv

\* handleResponse reads a response and takes its call out of the table.
LEMMA IndReadResponse == \A m \in responses : ReadResponse(m) => KeepsInv
<1> SUFFICES ASSUME IndInv, NEW m \in responses, ReadResponse(m) PROVE SafeInv'
  BY DEF KeepsInv
<1> USE ConnAssumption, SMTT(20)
        DEF Goto, tableVars, callVars, callerVars, readerVars, closeVars,
            netVars, Unregistered, Sent, GaveUp, InFlight
<1>0. /\ TypeOK /\ TableInv /\ FreshInv /\ SlotInv /\ MsgInv /\ HeldInv
      /\ AnsweredInv /\ DoneInv /\ OkInv /\ NoLostCall /\ NoCallAfterReader
      /\ Pending \subseteq Calls
  BY Parts
<1>1. m.seq \in Seqs
  BY <1>0 DEF TypeOK, Response
<1>2. /\ pending[m.seq] \in Pending \cup {nil}
      /\ Pending' = Pending \ {pending[m.seq]}
      /\ \A t \in Seqs : pending'[t] \in {pending[t], nil}
  <2>1. pending' = [pending EXCEPT ![m.seq] = nil]
    BY DEF ReadResponse
  <2> QED BY <1>0, <1>1, <2>1, DeleteEntry, Zenon
<1>3. TableInv' /\ FreshInv' /\ SlotInv' /\ MsgInv'
  BY <1>0, <1>1, <1>2 DEF ReadResponse, TypeOK, TableInv, Response, FreshInv,
       SlotInv, MsgInv
<1>4. HeldInv' /\ AnsweredInv' /\ DoneInv'
  BY <1>0, <1>1, <1>2 DEF ReadResponse, TypeOK, HeldInv, MsgInv, TableInv,
       DoneInv, AnsweredInv, Pending, Response
<1>5. OkInv' /\ NoLostCall' /\ NoCallAfterReader'
  BY <1>0, <1>1, <1>2 DEF ReadResponse, TypeOK, OkInv, Response, NoLostCall,
       Pending, NoCallAfterReader
<1> QED BY <1>3, <1>4, <1>5 DEF SafeInv

\* handleResponse completes the call of its response.
LEMMA IndDeliver == Deliver => KeepsInv
<1> SUFFICES ASSUME IndInv, Deliver PROVE SafeInv'
  BY DEF KeepsInv
<1> USE ConnAssumption, SMTT(20)
        DEF Goto, tableVars, callVars, callerVars, readerVars, closeVars,
            netVars, Unregistered, Sent, GaveUp, InFlight
<1>0. /\ TypeOK /\ TableInv /\ FreshInv /\ SlotInv /\ MsgInv /\ HeldInv
      /\ AnsweredInv /\ DoneInv /\ OkInv /\ NoLostCall /\ NoCallAfterReader
      /\ Pending \subseteq Calls
  BY Parts
<1>1. PICK e \in Errors : Complete({held}, e)
  BY <1>0 DEF Deliver, Errors, NoError, TypeOK
<1>2. /\ \A d \in Calls : d \in {held} => err'[d] = e /\ done'[d] > 0
      /\ \A d \in Calls : d \notin {held} => err'[d] = err[d]
                                       /\ done'[d] = done[d]
      /\ \A d \in Calls : done'[d] >= done[d]
  BY <1>0, <1>1, CompleteType
<1>3. Pending' = Pending
  BY SameTable, Zenon DEF Deliver
<1>4. TableInv' /\ FreshInv' /\ SlotInv' /\ MsgInv'
  BY <1>0, <1>2, <1>3 DEF Deliver, TypeOK, TableInv, FreshInv, HeldInv,
       MsgInv, SlotInv
<1>5. HeldInv' /\ AnsweredInv' /\ DoneInv'
  BY <1>0, <1>2, <1>3 DEF Deliver, TypeOK, HeldInv, AnsweredInv, MsgInv,
       DoneInv
<1>6. OkInv' /\ NoLostCall' /\ NoCallAfterReader'
  BY <1>0, <1>2, <1>3 DEF Deliver, TypeOK, OkInv, HeldInv, NoError,
       NoLostCall, NoCallAfterReader
<1> QED BY <1>4, <1>5, <1>6 DEF SafeInv

\* handleResponse fails to read and leaves its loop.
LEMMA IndReadFails == ReadFails => KeepsInv
<1> SUFFICES ASSUME IndInv, ReadFails PROVE SafeInv'
  BY DEF KeepsInv
<1> USE ConnAssumption, SMTT(20)
        DEF Goto, tableVars, callVars, callerVars, readerVars, closeVars,
            netVars, Unregistered, Sent, GaveUp, InFlight
<1>0. /\ TypeOK /\ TableInv /\ FreshInv /\ SlotInv /\ MsgInv /\ HeldInv
      /\ AnsweredInv /\ DoneInv /\ OkInv /\ NoLostCall /\ NoCallAfterReader
      /\ Pending \subseteq Calls
  BY Parts
<1>1. Pending' = Pending
  BY SameTable, Zenon DEF ReadFails
<1>2. TableInv' /\ FreshInv' /\ SlotInv' /\ MsgInv'
  BY <1>0, <1>1, Zenon DEF ReadFails, TypeOK, TableInv, FreshInv, SlotInv, MsgInv
<1>3. HeldInv' /\ AnsweredInv' /\ DoneInv'
  BY <1>0, <1>1, Zenon DEF ReadFails, TypeOK, HeldInv, MsgInv, AnsweredInv, DoneInv, NoError
<1>4. OkInv' /\ NoLostCall' /\ NoCallAfterReader'
  BY <1>0, <1>1 DEF ReadFails, TypeOK, OkInv, NoLostCall, NoCallAfterReader, NoError
<1> QED BY <1>2, <1>3, <1>4 DEF SafeInv

\* handleResponse shuts the table and completes the calls left in it.
LEMMA IndDrain == Drain => KeepsInv
<1> SUFFICES ASSUME IndInv, Drain PROVE SafeInv'
  BY DEF KeepsInv
<1> USE ConnAssumption, SMTT(20)
        DEF Goto, tableVars, callVars, callerVars, readerVars, closeVars,
            netVars, Unregistered, Sent, GaveUp, InFlight
<1>0. /\ TypeOK /\ TableInv /\ FreshInv /\ SlotInv /\ MsgInv /\ HeldInv
      /\ AnsweredInv /\ DoneInv /\ OkInv /\ NoLostCall /\ NoCallAfterReader
      /\ Pending \subseteq Calls
  BY Parts
<1>1. PICK e \in Errors \ {NoError} : Complete(Pending, e)
  BY <1>0 DEF Drain, Errors, NoError, TypeOK, OkInv
<1>2. /\ \A d \in Calls : d \in Pending => err'[d] = e /\ done'[d] > 0
      /\ \A d \in Calls : d \notin Pending => err'[d] = err[d]
                                       /\ done'[d] = done[d]
      /\ \A d \in Calls : done'[d] >= done[d]
  BY <1>0, <1>1, CompleteType
<1>3. Pending' = Pending
  BY SameTable, Zenon DEF Drain
<1>4. TableInv' /\ FreshInv' /\ SlotInv' /\ MsgInv'
  BY <1>0, <1>2, <1>3 DEF Drain, TypeOK, TableInv, FreshInv, Pending,
       SlotInv, MsgInv
<1>5. HeldInv' /\ AnsweredInv' /\ DoneInv'
  BY <1>0, <1>2, <1>3, Zenon DEF Drain, TypeOK, HeldInv, AnsweredInv, MsgInv,
       DoneInv
<1>6. OkInv' /\ NoLostCall' /\ NoCallAfterReader'
  BY <1>0, <1>2, <1>3 DEF Drain, TypeOK, OkInv, NoError, NoLostCall,
       NoCallAfterReader
<1> QED BY <1>4, <1>5, <1>6 DEF SafeInv

\* Close sets shutdown.
LEMMA IndClose == Close => KeepsInv
<1> SUFFICES ASSUME IndInv, Close PROVE SafeInv'
  BY DEF KeepsInv
<1> USE ConnAssumption, SMTT(20)
        DEF Goto, tableVars, callVars, callerVars, readerVars, closeVars,
            netVars, Unregistered, Sent, GaveUp, InFlight
<1>0. /\ TypeOK /\ TableInv /\ FreshInv /\ SlotInv /\ MsgInv /\ HeldInv
      /\ AnsweredInv /\ DoneInv /\ OkInv /\ NoLostCall /\ NoCallAfterReader
      /\ Pending \subseteq Calls
  BY Parts
<1>1. Pending' = Pending
  BY SameTable, Zenon DEF Close
<1>2. TableInv' /\ FreshInv' /\ SlotInv' /\ MsgInv'
  BY <1>0, <1>1, Zenon DEF Close, TypeOK, TableInv, FreshInv, SlotInv, MsgInv
<1>3. HeldInv' /\ AnsweredInv' /\ DoneInv'
  BY <1>0, <1>1, Zenon DEF Close, TypeOK, HeldInv, MsgInv, AnsweredInv, DoneInv
<1>4. OkInv' /\ NoLostCall' /\ NoCallAfterReader'
  BY <1>0, <1>1 DEF Close, TypeOK, OkInv, NoLostCall, NoCallAfterReader
<1> QED BY <1>2, <1>3, <1>4 DEF SafeInv

\* close completes the calls of the table and empties it.
LEMMA IndCloseTable == CloseTable => KeepsInv
<1> SUFFICES ASSUME IndInv, CloseTable PROVE SafeInv'
  BY DEF KeepsInv
<1> USE ConnAssumption, SMTT(20)
        DEF Goto, tableVars, callVars, callerVars, readerVars, closeVars,
            netVars, Unregistered, Sent, GaveUp, InFlight
<1>0. /\ TypeOK /\ TableInv /\ FreshInv /\ SlotInv /\ MsgInv /\ HeldInv
      /\ AnsweredInv /\ DoneInv /\ OkInv /\ NoLostCall /\ NoCallAfterReader
      /\ Pending \subseteq Calls
  BY Parts
<1>1. PICK e \in Errors \ {NoError} : Complete(Pending, e)
  BY <1>0 DEF CloseTable, Errors, NoError
<1>2. /\ \A d \in Calls : d \in Pending => err'[d] = e /\ done'[d] > 0
      /\ \A d \in Calls : d \notin Pending => err'[d] = err[d]
                                       /\ done'[d] = done[d]
      /\ \A d \in Calls : done'[d] >= done[d]
  BY <1>0, <1>1, CompleteType
<1>3. Pending' = {} /\ \A t \in Seqs : pending'[t] = nil
  BY DEF CloseTable, Pending
<1>4. TableInv' /\ FreshInv' /\ SlotInv' /\ MsgInv'
  BY <1>0, <1>2, <1>3 DEF CloseTable, TypeOK, TableInv, FreshInv, Pending,
       SlotInv, MsgInv, Request, Response
<1>5. HeldInv' /\ AnsweredInv' /\ DoneInv'
  BY <1>0, <1>2, <1>3, Zenon DEF CloseTable, TypeOK, HeldInv, AnsweredInv, MsgInv,
       DoneInv
<1>6. OkInv' /\ NoLostCall' /\ NoCallAfterReader'
  BY <1>0, <1>2, <1>3 DEF CloseTable, TypeOK, OkInv, NoError, NoLostCall,
       NoCallAfterReader
<1> QED BY <1>4, <1>5, <1>6 DEF SafeInv

\* close closes the connection.
LEMMA IndCloseConn == CloseConn => KeepsInv
<1> SUFFICES ASSUME IndInv, CloseConn PROVE SafeInv'
  BY DEF KeepsInv
<1> USE ConnAssumption, SMTT(20)
        DEF Goto, tableVars, callVars, callerVars, readerVars, closeVars,
            netVars, Unregistered, Sent, GaveUp, InFlight
<1>0. /\ TypeOK /\ TableInv /\ FreshInv /\ SlotInv /\ MsgInv /\ HeldInv
      /\ AnsweredInv /\ DoneInv /\ OkInv /\ NoLostCall /\ NoCallAfterReader
      /\ Pending \subseteq Calls
  BY Parts
<1>1. Pending' = Pending
  BY SameTable, Zenon DEF CloseConn
<1>2. TableInv' /\ FreshInv' /\ SlotInv' /\ MsgInv'
  BY <1>0, <1>1, Zenon DEF CloseConn, TypeOK, TableInv, FreshInv, SlotInv, MsgInv
<1>3. HeldInv' /\ AnsweredInv' /\ DoneInv'
  BY <1>0, <1>1, Zenon DEF CloseConn, TypeOK, HeldInv, MsgInv, AnsweredInv, DoneInv
<1>4. OkInv' /\ NoLostCall' /\ NoCallAfterReader'
  BY <1>0, <1>1 DEF CloseConn, TypeOK, OkInv, NoLostCall, NoCallAfterReader
<1> QED BY <1>2, <1>3, <1>4 DEF SafeInv

\* The server answers a request.
LEMMA IndHandle == \A r \in requests : Handle(r) => KeepsInv
<1> SUFFICES ASSUME IndInv, NEW r \in requests, Handle(r) PROVE SafeInv'
  BY DEF KeepsInv
<1> USE ConnAssumption, SMTT(20)
        DEF Goto, tableVars, callVars, callerVars, readerVars, closeVars,
            netVars, Unregistered, Sent, GaveUp, InFlight
<1>0. /\ TypeOK /\ TableInv /\ FreshInv /\ SlotInv /\ MsgInv /\ HeldInv
      /\ AnsweredInv /\ DoneInv /\ OkInv /\ NoLostCall /\ NoCallAfterReader
      /\ Pending \subseteq Calls
  BY Parts
<1>1. Pending' = Pending
  BY SameTable, Zenon DEF Handle
<1>2. TableInv' /\ FreshInv' /\ SlotInv' /\ MsgInv'
  BY <1>0, <1>1 DEF Handle, TypeOK, TableInv, Request, Response, FreshInv,
       SlotInv, MsgInv
<1>3. HeldInv' /\ AnsweredInv' /\ DoneInv'
  BY <1>0, <1>1 DEF Handle, TypeOK, HeldInv, Request, Response, AnsweredInv,
       MsgInv, DoneInv
<1>4. OkInv' /\ NoLostCall' /\ NoCallAfterReader'
  BY <1>0, <1>1, Zenon DEF Handle, TypeOK, OkInv, Request, Response, NoLostCall,
       NoCallAfterReader
<1> QED BY <1>2, <1>3, <1>4 DEF SafeInv

\* The server closes the connection.
LEMMA IndPeerCloses == PeerCloses => KeepsInv
<1> SUFFICES ASSUME IndInv, PeerCloses PROVE SafeInv'
  BY DEF KeepsInv
<1> USE ConnAssumption, SMTT(20)
        DEF Goto, tableVars, callVars, callerVars, readerVars, closeVars,
            netVars, Unregistered, Sent, GaveUp, InFlight
<1>0. /\ TypeOK /\ TableInv /\ FreshInv /\ SlotInv /\ MsgInv /\ HeldInv
      /\ AnsweredInv /\ DoneInv /\ OkInv /\ NoLostCall /\ NoCallAfterReader
      /\ Pending \subseteq Calls
  BY Parts
<1>1. Pending' = Pending
  BY SameTable, Zenon DEF PeerCloses
<1>2. TableInv' /\ FreshInv' /\ SlotInv' /\ MsgInv'
  BY <1>0, <1>1, Zenon DEF PeerCloses, TypeOK, TableInv, FreshInv, SlotInv, MsgInv
<1>3. HeldInv' /\ AnsweredInv' /\ DoneInv'
  BY <1>0, <1>1, Zenon DEF PeerCloses, TypeOK, HeldInv, MsgInv, AnsweredInv, DoneInv
<1>4. OkInv' /\ NoLostCall' /\ NoCallAfterReader'
  BY <1>0, <1>1 DEF PeerCloses, TypeOK, OkInv, NoLostCall, NoCallAfterReader
<1> QED BY <1>2, <1>3, <1>4 DEF SafeInv

\* The network breaks.
LEMMA IndLinkBreaks == LinkBreaks => KeepsInv
<1> SUFFICES ASSUME IndInv, LinkBreaks PROVE SafeInv'
  BY DEF KeepsInv
<1> USE ConnAssumption, SMTT(20)
        DEF Goto, tableVars, callVars, callerVars, readerVars, closeVars,
            netVars, Unregistered, Sent, GaveUp, InFlight
<1>0. /\ TypeOK /\ TableInv /\ FreshInv /\ SlotInv /\ MsgInv /\ HeldInv
      /\ AnsweredInv /\ DoneInv /\ OkInv /\ NoLostCall /\ NoCallAfterReader
      /\ Pending \subseteq Calls
  BY Parts
<1>1. Pending' = Pending
  BY SameTable, Zenon DEF LinkBreaks
<1>2. TableInv' /\ FreshInv' /\ SlotInv' /\ MsgInv'
  BY <1>0, <1>1 DEF LinkBreaks, TypeOK, TableInv, FreshInv, SlotInv, MsgInv
<1>3. HeldInv' /\ AnsweredInv' /\ DoneInv'
  BY <1>0, <1>1, Zenon DEF LinkBreaks, TypeOK, HeldInv, MsgInv, AnsweredInv, DoneInv
<1>4. OkInv' /\ NoLostCall' /\ NoCallAfterReader'
  BY <1>0, <1>1 DEF LinkBreaks, TypeOK, OkInv, NoLostCall, NoCallAfterReader
<1> QED BY <1>2, <1>3, <1>4 DEF SafeInv

\* A stuttering step.
LEMMA IndUnchanged == (UNCHANGED vars) => KeepsInv
<1> SUFFICES ASSUME IndInv, UNCHANGED vars PROVE SafeInv'
  BY DEF KeepsInv
<1> USE ConnAssumption, SMTT(20)
        DEF Goto, tableVars, callVars, callerVars, readerVars, closeVars,
            netVars, Unregistered, Sent, GaveUp, InFlight
<1>0. /\ TypeOK /\ TableInv /\ FreshInv /\ SlotInv /\ MsgInv /\ HeldInv
      /\ AnsweredInv /\ DoneInv /\ OkInv /\ NoLostCall /\ NoCallAfterReader
      /\ Pending \subseteq Calls
  BY Parts
<1>1. Pending' = Pending
  BY SameTable, Zenon DEF vars
<1>2. TableInv' /\ FreshInv' /\ SlotInv' /\ MsgInv'
  BY <1>0, <1>1, Zenon DEF vars, TableInv, FreshInv, SlotInv, MsgInv
<1>3. HeldInv' /\ AnsweredInv' /\ DoneInv'
  BY <1>0, <1>1 DEF vars, HeldInv, AnsweredInv, DoneInv
<1>4. OkInv' /\ NoLostCall' /\ NoCallAfterReader'
  BY <1>0, <1>1 DEF vars, OkInv, NoLostCall, NoCallAfterReader
<1> QED BY <1>2, <1>3, <1>4 DEF SafeInv

\* Every step keeps the invariant.
LEMMA IndStep == IndInv /\ [Next]_vars => IndInv'
<1> SUFFICES ASSUME IndInv, [Next]_vars PROVE IndInv'
  OBVIOUS
<1>1. TypeOK'
  BY TypeStep DEF IndInv
<1> QED BY <1>1, IndStart, IndTick, IndRefuse, IndRegister, IndEncode,
     IndEncodeFails, IndWrite, IndWriteFails, IndReceive, IndCancel,
     IndReadResponse, IndDeliver, IndReadFails, IndDrain, IndClose,
     IndCloseTable, IndCloseConn, IndHandle, IndPeerCloses, IndLinkBreaks,
     IndUnchanged, Zenon
        DEF KeepsInv, IndInv, SafeInv, Next, Caller, Reader, Closer, Environment

\* IndInv holds in every reachable state of the connection.
THEOREM Inductive == Spec => []IndInv
<1>1. Init => IndInv
  BY IndInit
<1>2. IndInv /\ [Next]_vars => IndInv'
  BY IndStep
<1> QED BY <1>1, <1>2, PTL DEF Spec

\* Every call that has left the caller's goroutine and has no answer yet is
\* in the pending table or held by the input loop: send and handleResponse
\* never drop a call without completing it.
THEOREM NoCallLost == Spec => []NoLostCall
<1>1. IndInv => NoLostCall
  BY DEF IndInv
<1> QED BY <1>1, Inductive, PTL

\* Once handleResponse has drained the table and returned, no call waits for
\* it: send's check of shutdown under the mutex closes the door in time.
THEOREM NoneAfterReader == Spec => []NoCallAfterReader
<1>1. IndInv => NoCallAfterReader
  BY DEF IndInv
<1> QED BY <1>1, Inductive, PTL

\* A response completes the call whose arguments its request carried: the
\* sequence numbers of send are never reused for another call.
THEOREM ReplyMatches == Spec => []ReplyToItsCall
<1>1. IndInv => ReplyToItsCall
  BY DEF IndInv, HeldInv, ReplyToItsCall
<1> QED BY <1>1, Inductive, PTL

\* handleResponse writes into the reply of a call that has returned only if
\* its caller left call() through the context.
THEOREM LateReply == Spec => []LateReplyOnlyAfterCancel
<1>1. IndInv => LateReplyOnlyAfterCancel
  BY ConnAssumption
     DEF IndInv, TypeOK, HeldInv, GaveUp, LateReplyOnlyAfterCancel
<1> QED BY <1>1, Inductive, PTL

-----------------------------------------------------------------------------
(* What a step may never do, and the refinement of Rpc. *)


\* A step that completes the calls of S leaves the other calls as they are.
LEMMA CompleteKeeps ==
  ASSUME NEW S, NEW e, TypeOK, Complete(S, e), S \cap answered = {}
  PROVE  \A c \in answered : err'[c] = err[c] /\ done'[c] <= done[c]
BY DEF TypeOK, Complete

\* A step that leaves the calls alone completes none.
LEMMA IdleKeeps ==
  TypeOK /\ UNCHANGED callVars
    => \A c \in answered : err'[c] = err[c] /\ done'[c] <= done[c]
BY DEF TypeOK, callVars

\* A call completed by a response keeps its error, and its Done channel gets
\* no second element: handleResponse takes the call out of the table before
\* it completes it, and nobody else holds it.
THEOREM AnswerFinal == Spec => AnswerIsFinal
<1> USE SMTT(20)
<1> DEFINE Keeps == \A c \in answered : err'[c] = err[c] /\ done'[c] <= done[c]
<1>1. ASSUME IndInv, [Next]_vars PROVE Keeps
  <2> HIDE DEF Keeps
  <2>0. /\ TypeOK /\ TableInv /\ FreshInv /\ MsgInv /\ HeldInv /\ AnsweredInv
        /\ Pending \cap answered = {}
    BY <1>1, Parts DEF AnsweredInv
  <2>1. ASSUME UNCHANGED callVars PROVE Keeps
    BY <2>0, <2>1, IdleKeeps, Zenon DEF Keeps
  <2>2. ASSUME NEW S, NEW e, Complete(S, e), S \cap answered = {} PROVE Keeps
    BY <2>0, <2>2, CompleteKeeps, Zenon DEF Keeps
  <2>3. ASSUME NEW c \in Calls, Caller(c) PROVE Keeps
    <3>1. CASE Start(c) \/ Tick(c) \/ Register(c) \/ Encode(c) \/ Write(c)
      BY <2>1, <3>1, Zenon DEF Start, Tick, Register, Encode, Write, callVars
    <3>2. CASE Refuse(c)
      <4>1. {c} \cap answered = {}
        <5>1. c \notin answered
          BY <2>0, <3>2, Zenon DEF Refuse, AnsweredInv, MsgInv, Sent
        <5> QED BY <5>1, Zenon
      <4> QED BY <2>2, <3>2, <4>1, Zenon DEF Refuse
    <3>3. CASE EncodeFails(c)
      <4>1. {c} \cap answered = {}
        <5>1. c \notin answered
          BY <2>0, <3>3, Zenon DEF EncodeFails, AnsweredInv, MsgInv, Sent
        <5> QED BY <5>1, Zenon
      <4> QED BY <2>2, <3>3, <4>1, Zenon DEF EncodeFails
    <3>4. CASE WriteFails(c)
      <4>1. {pending[mySeq[c]]} \cap answered = {}
        BY <2>0 DEF TypeOK, Pending
      <4> QED BY <2>2, <3>4, <4>1, Zenon DEF WriteFails
    <3>5. CASE Receive(c)
      BY <2>0, <3>5 DEF Keeps, Receive, TypeOK
    <3>6. CASE Cancel(c)
      <4>1. {pending[0]} \cap answered = {}
        BY <2>0, ConnAssumption DEF TypeOK, Pending, Seqs
      <4> QED BY <2>2, <3>6, <4>1, Zenon DEF Cancel
    <3> QED BY <2>3, <3>1, <3>2, <3>3, <3>4, <3>5, <3>6, Zenon DEF Caller
  <2>4. CASE Reader
    <3>1. ASSUME NEW m \in responses, ReadResponse(m) PROVE Keeps
      BY <2>1, <3>1, Zenon DEF ReadResponse
    <3>2. CASE Deliver
      <4>1. {held} \cap answered = {}
        BY <2>0, <3>2, Zenon DEF Deliver, HeldInv
      <4> QED BY <2>2, <3>2, <4>1, Zenon DEF Deliver
    <3>3. CASE ReadFails
      BY <2>1, <3>3, Zenon DEF ReadFails
    <3>4. CASE Drain
      BY <2>0, <2>2, <3>4, Zenon DEF Drain
    <3> QED BY <2>4, <3>1, <3>2, <3>3, <3>4, Zenon DEF Reader
  <2>5. CASE Closer
    <3>1. CASE Close \/ CloseConn
      BY <2>1, <3>1, Zenon DEF Close, CloseConn
    <3>2. CASE CloseTable
      BY <2>0, <2>2, <3>2, Zenon DEF CloseTable
    <3> QED BY <2>5, <3>1, <3>2, Zenon DEF Closer
  <2>6. CASE Environment
    BY <2>1, <2>6, Zenon DEF Environment, Handle, PeerCloses, LinkBreaks
  <2>7. CASE UNCHANGED vars
    BY <2>1, <2>7, Zenon DEF vars
  <2> QED BY <1>1, <2>3, <2>4, <2>5, <2>6, <2>7, Zenon DEF Next
<1>2. IndInv /\ [Next]_vars => [Keeps]_vars
  BY <1>1
<1> QED BY <1>2, Inductive, PTL DEF Spec, AnswerIsFinal

\* A step that moves no call between the abstract states is a stutter.
LEMMA SameStatus ==
  ASSUME \A c \in Calls : pc'[c] # pc[c] =>
            /\ pc[c] \notin {"idle", "returned"}
            /\ pc'[c] \notin {"idle", "returned"},
         ret' = ret
  PROVE  rpcStatus' = rpcStatus
<1>1. ASSUME NEW c \in Calls PROVE rpcStatus'[c] = rpcStatus[c]
  BY <1>1 DEF rpcStatus
<1> QED BY <1>1 DEF rpcStatus

\* A step that changes the abstract state of one call.
LEMMA OneStatus ==
  ASSUME NEW c \in Calls,
         \A b \in Calls \ {c} : pc'[b] = pc[b] /\ ret'[b] = ret[b]
  PROVE  rpcStatus' = [rpcStatus EXCEPT ![c] = rpcStatus'[c]]
<1>1. ASSUME NEW b \in Calls \ {c} PROVE rpcStatus'[b] = rpcStatus[b]
  BY <1>1 DEF rpcStatus
<1>2. rpcStatus = [b \in Calls |-> rpcStatus[b]]
  BY DEF rpcStatus
<1>3. rpcStatus' = [b \in Calls |-> rpcStatus'[b]]
  BY DEF rpcStatus
<1> QED BY <1>1, <1>2, <1>3

\* A client connection implements the abstract call service: Start and Tick
\* invoke a call, Handle executes it, and Receive and Cancel end it.
THEOREM Refinement == Spec => ImplementsRpc
<1> USE SMTT(20)
<1>1. Init => Abstract!Init
  BY DEF Init, Abstract!Init, rpcStatus
<1>2. ASSUME IndInv, [Next]_vars PROVE [Abstract!Next]_(Abstract!vars)
  <2> DEFINE Stutters == rpcStatus' = rpcStatus /\ handled' = handled
             Moves == \E c \in Calls : Abstract!Invoke(c) \/ Abstract!Execute(c)
                                    \/ Abstract!Reply(c) \/ Abstract!Fail(c)
  <2> HIDE DEF Stutters, Moves
  <2>0. TypeOK /\ MsgInv /\ OkInv
    BY <1>2, Parts
  <2>1. ASSUME NEW c \in Calls, Caller(c) PROVE Stutters \/ Moves
    <3>0. handled' = handled
      <4>1. Start(c) \/ Tick(c) \/ Refuse(c) \/ Register(c) => handled' = handled
        BY Zenon DEF Start, Tick, Refuse, Register, netVars
      <4>2. Encode(c) \/ EncodeFails(c) \/ Write(c) => handled' = handled
        BY Zenon DEF Encode, EncodeFails, Write, netVars
      <4>3. WriteFails(c) \/ Receive(c) \/ Cancel(c) => handled' = handled
        BY Zenon DEF WriteFails, Receive, Cancel, netVars
      <4> QED BY <2>1, <4>1, <4>2, <4>3, Zenon DEF Caller
    <3>1. CASE Start(c) \/ (Tick(c) /\ ~Dead)
      <4>1. pc[c] = "idle" /\ pc' = [pc EXCEPT ![c] = "send"] /\ ret' = ret
        BY <3>1 DEF Start, Tick, Goto
      <4>2. rpcStatus[c] = "idle" /\ rpcStatus'[c] = "active"
        BY <2>0, <4>1 DEF TypeOK, rpcStatus
      <4>3. rpcStatus' = [rpcStatus EXCEPT ![c] = rpcStatus'[c]]
        BY <2>0, <4>1, OneStatus DEF TypeOK
      <4> QED BY <3>0, <4>2, <4>3 DEF Moves, Abstract!Invoke
    <3>2. CASE Tick(c) /\ Dead
      BY <2>0, <3>0, <3>2, SameStatus DEF Tick, TypeOK, Goto, Stutters
    <3>3. CASE \/ Refuse(c) \/ Register(c) \/ Encode(c) \/ EncodeFails(c)
               \/ Write(c) \/ WriteFails(c)
      <4> DEFINE Goes(l) == pc' = [pc EXCEPT ![c] = l] /\ ret' = ret
                 Moved == \E l \in {"encode", "write", "wait"} : Goes(l)
      <4>1. Refuse(c) \/ Register(c) => Moved
        BY Zenon DEF Refuse, Register, Goto
      <4>2. Encode(c) \/ EncodeFails(c) => Moved
        BY Zenon DEF Encode, EncodeFails, Goto
      <4>3. Write(c) \/ WriteFails(c) => Moved
        BY Zenon DEF Write, WriteFails, Goto
      <4>4. PICK l \in {"encode", "write", "wait"} : Goes(l)
        BY <3>3, <4>1, <4>2, <4>3, Zenon
      <4>5. pc[c] \in {"send", "encode", "write"}
        BY <3>3, Zenon
           DEF Refuse, Register, Encode, EncodeFails, Write, WriteFails
      <4>6. rpcStatus' = rpcStatus
        BY <2>0, <4>4, <4>5, SameStatus DEF TypeOK
      <4> QED BY <3>0, <4>6, Zenon DEF Stutters
    <3>4. CASE Receive(c)
      <4>1. rpcStatus[c] = "active"
        BY <3>4 DEF Receive, rpcStatus
      <4>2. rpcStatus'[c] = IF err[c] = NoError THEN "ok" ELSE "failed"
        BY <2>0, <3>4 DEF Receive, TypeOK, Goto, rpcStatus
      <4>3. err[c] = NoError => c \in handled
        BY <2>0, <3>4 DEF Receive, OkInv
      <4>4. rpcStatus' = [rpcStatus EXCEPT ![c] = rpcStatus'[c]]
        <5>1. \A b \in Calls \ {c} : pc'[b] = pc[b] /\ ret'[b] = ret[b]
          BY <2>0, <3>4 DEF Receive, TypeOK, Goto
        <5> QED BY <5>1, OneStatus, Zenon
      <4> QED BY <3>0, <4>1, <4>2, <4>3, <4>4
              DEF Moves, Abstract!Reply, Abstract!Fail
    <3>5. CASE Cancel(c)
      <4>1. rpcStatus[c] = "active" /\ rpcStatus'[c] = "failed"
        BY <2>0, <3>5 DEF Cancel, TypeOK, Goto, rpcStatus, NoError
      <4>2. rpcStatus' = [rpcStatus EXCEPT ![c] = rpcStatus'[c]]
        <5>1. \A b \in Calls \ {c} : pc'[b] = pc[b] /\ ret'[b] = ret[b]
          BY <2>0, <3>5 DEF Cancel, TypeOK, Goto
        <5> QED BY <5>1, OneStatus, Zenon
      <4> QED BY <3>0, <4>1, <4>2 DEF Moves, Abstract!Fail
    <3> QED BY <2>1, <3>1, <3>2, <3>3, <3>4, <3>5, SMTT(30) DEF Caller
  <2>2. ASSUME NEW r \in requests, Handle(r) PROVE Moves
    <3>1. r.call \in Calls /\ r.call \notin handled /\ Sent(r.call)
      BY <2>0 DEF TypeOK, MsgInv, Request
    <3>2. rpcStatus' = rpcStatus
      BY <2>2, SameStatus, SMTT(30) DEF Handle, callerVars
    <3>3. ret[r.call] # NoError \/ pc[r.call] = "wait"
      BY <2>0, <3>1, Zenon DEF OkInv, Sent
    <3>4. Abstract!Execute(r.call)
      BY <2>2, <3>1, <3>2, <3>3 DEF Handle, Sent, Abstract!Execute, rpcStatus
    <3> QED BY <3>1, <3>4 DEF Moves
  <2>3. ASSUME Reader \/ Closer \/ PeerCloses \/ LinkBreaks \/ UNCHANGED vars
        PROVE  Stutters
    <3>1. pc' = pc /\ ret' = ret /\ handled' = handled
      <4> DEFINE Same == pc' = pc /\ ret' = ret /\ handled' = handled
      <4>1. Reader => Same
        BY Zenon DEF Reader, ReadResponse, Deliver, ReadFails, Drain,
                     callerVars, netVars
      <4>2. Closer => Same
        BY Zenon DEF Closer, Close, CloseTable, CloseConn, callerVars, netVars
      <4>3. PeerCloses \/ LinkBreaks \/ (UNCHANGED vars) => Same
        BY Zenon DEF PeerCloses, LinkBreaks, vars, callerVars, netVars
      <4> QED BY <2>3, <4>1, <4>2, <4>3, Zenon
    <3>2. rpcStatus' = rpcStatus
      BY <3>1 DEF rpcStatus
    <3> QED BY <3>1, <3>2, Zenon DEF Stutters
  <2>4. Stutters \/ Moves
    BY <1>2, <2>1, <2>2, <2>3, Zenon DEF Next, Environment
  <2> QED BY <2>4 DEF Stutters, Moves, Abstract!Next, Abstract!vars
<1>3. IndInv /\ [Next]_vars => [Abstract!Next]_(Abstract!vars)
  BY <1>2
<1> QED BY <1>1, <1>3, Inductive, PTL DEF Spec, ImplementsRpc, Abstract!Spec
=============================================================================
