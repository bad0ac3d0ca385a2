---------------------------- MODULE MC_GuestMemory ----------------------------
(* Arenas of a few pages; a page is two units, a granule two pages.           *)
EXTENDS GuestMemory, TLC

CONSTANTS t1, t2

Twins == Permutations(Threads)
BaseOf == "virtual" :> 4 @@ "thread" :> 40 @@ "object" :> 60 @@ "stack" :> 70
          @@ "physical" :> 90
TopOf == "virtual" :> 20 @@ "thread" :> 52 @@ "object" :> 66 @@ "stack" :> 90
         @@ "physical" :> 110
==============================================================================
