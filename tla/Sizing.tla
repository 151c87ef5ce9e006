------------------------------- MODULE Sizing -------------------------------
(***************************************************************************)
(* The memory arithmetic of internal/llm/llamacpp: the fit gate (fit.go),  *)
(* the tuner (tune.go) and the choice of a smaller model (catalog.go).     *)
(* Amounts are in KiB, the unit in which every constant of the code is a   *)
(* whole number; MaxBytes stands for the largest uint64.                   *)
(***************************************************************************)
EXTENDS Integers, FiniteSetsExt, Functions

CONSTANTS MaxBytes,   \* the largest value of an unsigned counter
          Ladder      \* the catalog of replacement models, a set

ASSUME MaxBytesAssumption == MaxBytes \in Nat \ {0}

byteGiB == 1024 * 1024
defaultContextTokens == 4096
minRecommendedCtx == 2048
fallbackCtxCeiling == 32768
fullOffloadLayers == 99
ctxLadder == {131072, 65536, 32768, 16384, 8192, 4096, 2048}
kvTypeLadder == <<"f16", "q8_0", "q4_0">>
Unset == ""   \* a string the caller leaves empty

DefaultFitPolicy ==
    [kvPerToken |-> 512, osReserve |-> 4 * byteGiB, headroom |-> byteGiB,
     scratch |-> byteGiB, disk |-> 2 * byteGiB]

Larger(a, b) == IF a >= b THEN a ELSE b
Smaller(a, b) == IF a <= b THEN a ELSE b

saturatingSub(a, b) == IF a >= b THEN a - b ELSE 0

(* An unsigned operation and whether it overflowed. *)
Overflow == MaxBytes + 1
add64(a, b) == IF a > MaxBytes \/ b > MaxBytes \/ a > MaxBytes - b THEN Overflow ELSE a + b
mul64(a, b) == IF a > MaxBytes \/ b > MaxBytes \/ (a # 0 /\ b > MaxBytes \div a) THEN Overflow ELSE a * b
sum64(a, b, c) == add64(a, add64(b, c))

kvCacheSixteenths(t) == CASE t = "q8_0" -> 9 [] t = "q4_0" -> 5 [] OTHER -> 16

kvBytesPerToken(base, t) == (base * kvCacheSixteenths(t)) \div 16

-----------------------------------------------------------------------------
(* A host is [total, avail, disk, vram, unified, gpu]; a request is        *)
(* [model, mmproj, download, ctx, parallel, layers, kv, reclaimable], with  *)
(* the accelerator the caller passes on as vram and unified.                *)

HasUsableGPU(host) == host.gpu /\ host.vram > 0

WeightOverhead(artifacts) == (artifacts \div 100) * 15

Scratch(artifacts) == Larger(DefaultFitPolicy.scratch, artifacts \div 10)

(* The memory the gate lets a model use: both what the machine could give    *)
(* and what is free now, less the reserves.                                 *)
MemoryBudget(host, reclaimable) ==
    LET osReserve == Larger(DefaultFitPolicy.osReserve, host.total \div 8)
        headroom == Larger(DefaultFitPolicy.headroom, host.total \div 32)
        available == Smaller(MaxBytes, add64(host.avail, reclaimable))
    IN Smaller(saturatingSub(host.total, osReserve), saturatingSub(available, headroom))

ramSafeBudget(host) == MemoryBudget(host, 0)

VRAMBudget(vram) == saturatingSub(vram, Larger(byteGiB \div 2, vram \div 16))

KVEstimate(req) ==
    mul64(mul64(req.ctx, req.parallel), kvBytesPerToken(DefaultFitPolicy.kvPerToken, req.kv))

RuntimeEstimate(req) ==
    LET artifacts == add64(req.model, req.mmproj)
    IN add64(artifacts, sum64(WeightOverhead(artifacts), Scratch(artifacts), KVEstimate(req)))

DiskEstimate(req) ==
    add64(req.download, Larger(DefaultFitPolicy.disk, add64(req.model, req.mmproj) \div 20))

(* The reasons for which a request is refused; none means that it fits.      *)
FitReasons(host, req) ==
    LET artifacts == add64(req.model, req.mmproj)
        runtime == RuntimeEstimate(req)
        onGPU == sum64(artifacts, WeightOverhead(artifacts), KVEstimate(req))
        full == req.layers >= fullOffloadLayers /\ ~req.unified
    IN (IF req.model = 0 \/ host.total = 0 \/ host.avail = 0 \/ host.disk = 0 THEN {"unknown"} ELSE {})
       \cup IF artifacts = Overflow \/ runtime = Overflow THEN {"overflow"}
            ELSE (IF runtime > MemoryBudget(host, req.reclaimable) THEN {"memory"} ELSE {})
                 \cup (IF full /\ req.vram = 0 THEN {"noVRAM"} ELSE {})
                 \cup (IF full /\ req.vram > 0 /\ (onGPU = Overflow \/ onGPU > VRAMBudget(req.vram))
                       THEN {"vram"} ELSE {})
                 \cup (IF req.download > 0 /\ (DiskEstimate(req) = Overflow \/ DiskEstimate(req) > host.disk)
                       THEN {"disk"} ELSE {})

EstimateFitWithPolicy(host, req) ==
    [fits |-> FitReasons(host, req) = {}, runtime |-> RuntimeEstimate(req),
     model |-> req.model, mmproj |-> req.mmproj, host |-> host,
     ctx |-> req.ctx, parallel |-> req.parallel, kv |-> req.kv]

-----------------------------------------------------------------------------
(* The tuner.  Its sums are not checked for overflow: the sizes of files    *)
(* are taken to stay far below MaxBytes.                                    *)

effectiveCtxCeiling(operatorMax, nativeCtx) ==
    LET native == IF nativeCtx <= 0 THEN fallbackCtxCeiling ELSE Smaller(nativeCtx, Max(ctxLadder))
    IN IF operatorMax > 0 THEN Smaller(operatorMax, native) ELSE native

(* The largest context that fits, or 0.                                      *)
largestCtxWithin(budget, base, ceiling, kvPerToken) ==
    LET fitting == {c \in ctxLadder : c <= ceiling /\ base + c * kvPerToken <= budget}
    IN IF fitting = {} THEN 0 ELSE Max(fitting)

(* The least quantized cache whose largest fitting context is usable.        *)
fitCtxAndKV(budget, base, ceiling) ==
    LET ctx(i) == largestCtxWithin(budget, base, ceiling,
                                   kvBytesPerToken(DefaultFitPolicy.kvPerToken, kvTypeLadder[i]))
        usable == {i \in DOMAIN kvTypeLadder : ctx(i) >= minRecommendedCtx}
    IN IF usable = {} THEN [ctx |-> 0, kv |-> "f16"]
       ELSE [ctx |-> ctx(Min(usable)), kv |-> kvTypeLadder[Min(usable)]]

OrElse(fit, ctx) == IF fit.ctx = 0 THEN [ctx |-> ctx, kv |-> "f16"] ELSE fit

RecommendRuntime(host, model, mmproj, maxCtx, nativeCtx) ==
    LET artifacts == model + mmproj
        weights == artifacts + WeightOverhead(artifacts)
        ceiling == effectiveCtxCeiling(maxCtx, nativeCtx)
        kvAt(c) == c * DefaultFitPolicy.kvPerToken
        ram == OrElse(fitCtxAndKV(ramSafeBudget(host), weights + Scratch(artifacts), ceiling), 2048)
        vram == VRAMBudget(host.vram)
        inVRAM == largestCtxWithin(vram, weights, ceiling, DefaultFitPolicy.kvPerToken)
        onDevice == saturatingSub(vram, kvAt(2048))
        partial == OrElse(fitCtxAndKV(ramSafeBudget(host),
                                      saturatingSub(weights, onDevice) + Scratch(artifacts), ceiling),
                          Smaller(4096, ceiling))
    IN IF model = 0 \/ host.total = 0 \/ host.avail = 0
       THEN [layers |-> 0, ctx |-> defaultContextTokens, kv |-> Unset]
       ELSE IF ~HasUsableGPU(host) THEN [layers |-> 0, ctx |-> ram.ctx, kv |-> ram.kv]
       ELSE IF host.unified THEN [layers |-> fullOffloadLayers, ctx |-> ram.ctx, kv |-> ram.kv]
       ELSE IF vram >= weights + kvAt(2048)
       THEN [layers |-> fullOffloadLayers, ctx |-> IF inVRAM = 0 THEN 2048 ELSE inVRAM, kv |-> Unset]
       ELSE [layers |-> Larger(1, Smaller(fullOffloadLayers - 1,
                          ((onDevice \div 1024) * fullOffloadLayers) \div Larger(1, weights \div 1024))),
             ctx |-> partial.ctx, kv |-> partial.kv]

-----------------------------------------------------------------------------
(* The catalog of replacements: records [ref, bytes, modality, code].        *)

smallerCandidates(report) ==
    LET want == IF report.mmproj > 0 THEN "vision" ELSE "text"
    IN {m \in Ladder : m.modality = want /\ m.bytes < report.model}

candidateFitRequest(report, m, ctx) ==
    [model |-> m.bytes, mmproj |-> 0, download |-> 0, ctx |-> ctx, parallel |-> report.parallel,
     layers |-> 0, vram |-> 0, unified |-> FALSE, kv |-> report.kv, reclaimable |-> 0]

FittingCandidates(report, ctx) ==
    {m \in smallerCandidates(report) :
        EstimateFitWithPolicy(report.host, candidateFitRequest(report, m, ctx)).fits}

(* The replacements the agent may launch by itself: of those that fit at the *)
(* smallest context, code models first, the largest; the sort is not stable. *)
AutoPick(report) ==
    LET fitting == FittingCandidates(report, minRecommendedCtx)
        code == {m \in fitting : m.code}
        preferred == IF code # {} THEN code ELSE fitting
    IN IF report.model = 0 THEN {}
       ELSE {m \in preferred : \A n \in preferred : n.bytes <= m.bytes}
=============================================================================
