------------------------------ MODULE Services ------------------------------
(***************************************************************************)
(* What serves the scripts of a runtime with state of its own: what is     *)
(* stored (the file behind localStorage, the key-value store, the          *)
(* credentials of the proxies) and the native memory behind the objects of *)
(* a script (WebAssembly objects, calls, loads and tables, compression     *)
(* streams, native crypto calls).  They share no state.                    *)
(***************************************************************************)
EXTENDS Stores, WasmObjects, WasmLoads, NativeCalls

(* What is stored: a kill leaves the old file or the new one, a map in memory  *)
(* is what its file says, the key-value store answers like a map at its limit, *)
(* and a proxy gets the credentials that belong to it.                         *)
StoredIsKept ==
    /\ LsTypeOK /\ FileIsWhole /\ MemoryIsFile /\ StoreIsMap /\ AuthIsOwn

(* WebAssembly objects under any order of collection and calls nested through *)
(* imports: nothing is freed that can still be called, garbage goes, buffers  *)
(* show the memory that exists, an exception ends in the call that it belongs *)
(* to.                                                                        *)
WasmIsSafe ==
    /\ WasmTypeOK /\ CallsTypeOK /\ ParsedFreedOnce /\ ExportFindsRuntime
    /\ ModuleFindsData /\ NoGarbageStays /\ BufferIsCurrent /\ ThrownIsOwn
    /\ ThrowIsOver /\ BoundIsFound /\ LoadsPristine

(* Calls that can fail at every step release what they took and give away what *)
(* they should: loading and instantiating, growing a table, ending a           *)
(* compression stream, every exit of a native crypto call.                     *)
ResourcesAddUp ==
    /\ LoadsTypeOK /\ TablesTypeOK /\ CryptoTypeOK /\ ReferencesAddUp /\ SlotsAreCounted
    /\ StreamEndsOnce /\ ExitsAddUp /\ ReadyIsSeeded
=============================================================================
