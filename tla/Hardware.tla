------------------------------- MODULE Hardware -------------------------------
(***************************************************************************)
(* From the machine to what the backend lets its user run: the probe        *)
(* (scripts/hardware_probe.py) collects a report, the resolver              *)
(* (scripts/install_profiles.py) turns it into an install profile, the      *)
(* backend narrows that to what the running process may use                 *)
(* (capability_profile.py), and every model is judged by it                 *)
(* (model_compatibility.py, sysmon.py). All of it is a function of the      *)
(* machine, one setting and the models; AppSettings gives it its state.     *)
(* VRAM is in MB, model sizes and needs are in tenths of a GB.              *)
(***************************************************************************)
EXTENDS Integers, Sequences, FiniteSets

\* A machine: its operating system, its cards in PCI order, and the tools on it.
\* smi: "none", "old" (no compute_cap column) or "new"; torch: the vendor its build
\* is for and the devices it sees, in its own order.
Card(vendor, name, slot, vram, cap) ==
  [vendor |-> vendor, name |-> name, slot |-> slot, vram |-> vram, cap |-> cap]
NoGpu == [vendor |-> "none", name |-> "none", vram |-> 0, cap |-> <<>>]

\* _vendor_from_text: of any other card it says "unknown".
Vendors == {"nvidia", "amd", "intel"}
GpuRecord == [vendor : STRING, name : STRING, vram : Nat, cap : Seq(Nat)]
CardRecord == [vendor : STRING, name : STRING, slot : STRING, vram : Nat, cap : Seq(Nat)]

\* A machine as it can be: torch sees devices of its build's vendor, and a CUDA
\* device is a card that is there.
IsMachine(m) ==
  /\ m.cards \in Seq(CardRecord) /\ m.torch.devices \in Seq(GpuRecord)
  /\ \A i \in DOMAIN m.torch.devices :
       LET d == m.torch.devices[i] IN
       /\ d.vendor = m.torch.vendor
       /\ d.vendor = "nvidia" => \E k \in DOMAIN m.cards : m.cards[k].vendor = "nvidia" /\ m.cards[k].vram >= d.vram

------------------------------------------------------------------------------
(* hardware_probe.py *)

\* The cards of some vendors, in their order.
CardsOf(cards, vendors) ==
  LET found[n \in 0..Len(cards)] ==
        IF n = 0 THEN <<>>
        ELSE IF cards[n].vendor \in vendors THEN Append(found[n - 1], cards[n]) ELSE found[n - 1]
  IN found[Len(cards)]
Seen(card, name, vram, cap) == [vendor |-> card.vendor, name |-> name, vram |-> vram, cap |-> cap]

NvidiaSmi(m) ==
  LET cards == CardsOf(m.cards, {"nvidia"})
  IN IF m.smi = "none" THEN <<>>
     ELSE [i \in DOMAIN cards |-> Seen(cards[i], cards[i].name, cards[i].vram,
                                       IF m.smi = "new" THEN cards[i].cap ELSE <<>>)]

\* AdapterRAM has 32 bits.
WindowsVideo(m) ==
  LET cards == CardsOf(m.cards, Vendors)
  IN IF m.os # "windows" THEN <<>>
     ELSE [i \in DOMAIN cards |->
             Seen(cards[i], cards[i].name, IF cards[i].vram > 4095 THEN 4095 ELSE cards[i].vram, <<>>)]

\* lspci knows a card by another name, and not how much memory it has.
Lspci(m) ==
  LET cards == CardsOf(m.cards, Vendors)
  IN IF m.os # "linux" THEN <<>> ELSE [i \in DOMAIN cards |-> Seen(cards[i], cards[i].slot, 0, <<>>)]

\* Fields that are missing are filled from the other; 0 and <<>> are missing.
Filled(a, b) == [a EXCEPT !.vram = IF @ = 0 THEN b.vram ELSE @, !.cap = IF @ = <<>> THEN b.cap ELSE @]

\* _merge_gpus: one entry for each vendor and name.
AddGpu(acc, g) ==
  LET same == {i \in DOMAIN acc : acc[i].vendor = g.vendor /\ acc[i].name = g.name}
  IN IF same = {} THEN Append(acc, g)
     ELSE [i \in DOMAIN acc |-> IF i \in same THEN Filled(acc[i], g) ELSE acc[i]]

Merged(gpus) ==
  LET merged[n \in 0..Len(gpus)] == IF n = 0 THEN <<>> ELSE AddGpu(merged[n - 1], gpus[n])
  IN merged[Len(gpus)]

\* _attach_torch_devices: the k-th device of torch is the k-th card of its vendor.
AttachTorch(gpus, m) ==
  LET Mine(i)  == Cardinality({j \in 1..i : gpus[j].vendor = m.torch.vendor})
      devices  == m.torch.devices
      attached == [i \in DOMAIN gpus |->
                     IF gpus[i].vendor = m.torch.vendor /\ Mine(i) <= Len(devices)
                     THEN Filled(gpus[i], devices[Mine(i)]) ELSE gpus[i]]
  IN attached \o SubSeq(devices, Mine(Len(gpus)) + 1, Len(devices))

CollectReport(m) ==
  [os   |-> m.os, rocm |-> m.rocm,
   gpus |-> Merged(AttachTorch(Merged(NvidiaSmi(m) \o WindowsVideo(m) \o Lspci(m)), m))]

------------------------------------------------------------------------------
(* install_profiles.py *)

Families == {"sdxl", "flux", "flux2", "qwen-image", "z-image"}
\* IMAGE_FAMILY_POLICY: the rank in TIER_ORDER from which a family is no stretch.
MinTier(f) == CASE f = "sdxl" -> 2 [] f = "flux" -> 3 [] OTHER -> 4
NeedsNunchaku(f) == f # "sdxl"

\* hardware_tier, as a rank of TIER_ORDER.
Tier(gpu) ==
  CASE gpu.vram = 0 -> 0
    [] gpu.vram >= 24000 -> 5
    [] gpu.vram >= 16000 /\ gpu.vram < 24000 -> 4
    [] gpu.vram >= 12000 /\ gpu.vram < 16000 -> 3
    [] gpu.vram >= 8000 /\ gpu.vram < 12000 -> 2
    [] OTHER -> 1

AmperePlus(gpu) == gpu.cap # <<>> /\ gpu.cap[1] >= 8

\* _best_gpu: most memory; among equals the first.
BestGpu(gpus, vendor) ==
  LET mine == {i \in DOMAIN gpus : gpus[i].vendor = vendor}
      most == {i \in mine : \A j \in mine : gpus[j].vram <= gpus[i].vram}
  IN IF mine = {} THEN NoGpu ELSE gpus[CHOOSE i \in most : \A j \in most : i <= j]

Candidate(id, gpu) == [id |-> id, gpu |-> gpu]

\* _candidate_profiles: CUDA first, then ROCm or the reason why not; CPU-safe is
\* always there, at the end if nothing else put it in.
Candidates(r) ==
  LET nvidia == BestGpu(r.gpus, "nvidia")
      amd    == BestGpu(r.gpus, "amd")
      found  == (IF nvidia # NoGpu /\ r.os # "darwin" THEN <<Candidate("nvidia-cuda", nvidia)>> ELSE <<>>)
                \o (IF amd = NoGpu THEN <<>>
                    ELSE IF r.os = "linux" /\ r.rocm \in {"official", "visible"}
                    THEN <<Candidate("amd-rocm-linux", amd)>>
                    ELSE <<Candidate("cpu-safe", amd)>>)
      safe   == \E i \in DOMAIN found : found[i].id = "cpu-safe"
  IN IF safe THEN found ELSE Append(found, Candidate("cpu-safe", NoGpu))

\* _runtime_defaults
RuntimeDefaults(id, gpu) ==
  LET viable == AmperePlus(gpu) /\ Tier(gpu) >= 2
      plain  == [stub |-> FALSE, offload |-> Tier(gpu) <= 2, backend |-> "rocm", compile |-> FALSE,
                 attention |-> "auto", nunchaku |-> FALSE, cache |-> "off", blackwell |-> FALSE]
  IN CASE id = "nvidia-cuda" ->
            [plain EXCEPT !.backend = "cuda", !.compile = viable, !.nunchaku = viable,
                          !.attention = IF AmperePlus(gpu) THEN "auto" ELSE "math",
                          !.cache = IF viable THEN "fb" ELSE "off",
                          !.blackwell = gpu.cap # <<>> /\ gpu.cap[1] >= 12]
       [] id = "amd-rocm-linux" -> plain
       [] id = "cpu-safe" -> [plain EXCEPT !.stub = TRUE, !.backend = "cpu", !.attention = "math"]

\* PROFILE_DEFS and _optional_features: what setup installs besides.
CudaOnly == {"nunchaku_cuda", "cuda_llama_binaries", "onnxruntime_cuda"}
OptionalFeatures(id, defaults) ==
  IF id # "nvidia-cuda" THEN {}
  ELSE CudaOnly \ (IF defaults.nunchaku THEN {} ELSE {"nunchaku_cuda"})
ProfileDisabled(id) ==
  CASE id = "nvidia-cuda" -> {}
    [] id = "amd-rocm-linux" -> CudaOnly
    [] id = "cpu-safe" -> CudaOnly \cup {"heavy_image_models", "realtime_cuda_voice"}

\* _model_policy
ModelPolicy(defaults, tier) ==
  LET out == {f \in Families : defaults.backend = "cpu" \/ (NeedsNunchaku(f) /\ ~defaults.nunchaku)}
  IN [hidden      |-> out,
      recommended |-> {f \in Families \ out : tier >= MinTier(f)},
      advanced    |-> {f \in Families \ out : tier < MinTier(f)}]

\* resolve_profile, for the candidate that is selected.
Resolved(c) ==
  LET defaults == RuntimeDefaults(c.id, c.gpu)
  IN [id |-> c.id, gpu |-> c.gpu, defaults |-> defaults,
      optional |-> OptionalFeatures(c.id, defaults), disabled |-> ProfileDisabled(c.id),
      policy |-> ModelPolicy(defaults, Tier(c.gpu))]
ResolveProfile(r) == Resolved(Candidates(r)[1])

------------------------------------------------------------------------------
(* capability_profile.py *)

CudaFeatures == CudaOnly \cup {"realtime_cuda_voice"}

\* _active_defaults
ActiveDefaults(d, stub) ==
  IF ~stub THEN d
  ELSE [d EXCEPT !.backend = "cpu", !.stub = TRUE, !.compile = FALSE, !.attention = "math",
                 !.nunchaku = FALSE, !.blackwell = FALSE, !.offload = TRUE]

DisabledFeatures(p, d, stub) ==
  p.disabled \cup (IF stub THEN ProfileDisabled("cpu-safe") ELSE {})
    \cup (IF d.backend # "cuda" THEN CudaFeatures \cup {"blackwell_fast_paths"} ELSE {})
    \cup (IF d.nunchaku THEN {} ELSE {"nunchaku_cuda"})
    \cup (IF d.compile THEN {} ELSE {"torch_compile"})

Features(p, d, disabled) ==
  (IF d.backend = "cuda"
   THEN ((p.optional \cap (IF d.nunchaku THEN CudaOnly ELSE CudaOnly \ {"nunchaku_cuda"}))
           \cup {"realtime_cuda_voice"}) \ disabled
   ELSE {})
  \cup (IF d.compile THEN {"torch_compile"} \ disabled ELSE {})
  \cup (IF d.blackwell THEN {"blackwell_fast_paths"} ELSE {})

\* build_capability_profile: stubMode is the setting.
Capability(p, stubMode) ==
  LET stub == stubMode \/ p.id = "cpu-safe"
      d    == ActiveDefaults(p.defaults, stub)
      off  == DisabledFeatures(p, d, stub)
  IN [stub |-> stub, backend |-> d.backend, gpu |-> p.gpu, defaults |-> d, disabled |-> off,
      features |-> Features(p, d, off), policy |-> p.policy]

------------------------------------------------------------------------------
(* sysmon.py and model_compatibility.py *)

\* A model: its family, size and quantization; learned: measured VRAM (0: none).
Model(family, size, quant, learned) == [family |-> family, size |-> size, quant |-> quant, learned |-> learned]
Nunchaku(quant) == quant = "nunchaku"

AtLeastGb(low, n) == IF n < low THEN low ELSE n

\* estimate_vram_need_gb; 0: unknown family, no estimate.
VramNeed(d) ==
  CASE d.learned > 0 -> d.learned
    [] d.learned = 0 /\ d.family = "flux" -> IF Nunchaku(d.quant) THEN 98 ELSE AtLeastGb(160, d.size)
    [] d.learned = 0 /\ d.family = "flux2" -> IF Nunchaku(d.quant) THEN 80 ELSE 130
    [] d.learned = 0 /\ d.family = "qwen-image" -> IF d.quant = "bnb" THEN 150 ELSE 160
    [] d.learned = 0 /\ d.family = "z-image" -> 150
    [] d.learned = 0 /\ d.family = "sdxl" -> AtLeastGb(80, IF d.size * 165 > 12500 THEN 125 ELSE (d.size * 165) \div 100)
    [] d.learned = 0 /\ d.family = "gguf" -> AtLeastGb(20, d.size + 7)
    [] OTHER -> 0

\* _image_unavailable_reason; need > vram + 0.5 GB, in tenths of a GB.
Unavailable(d, profile) ==
  \/ Nunchaku(d.quant) /\ "nunchaku_cuda" \in profile.disabled
  \/ profile.backend = "rocm" /\ d.quant = "bnb"
  \/ profile.backend = "cpu"
  \/ VramNeed(d) > 0 /\ profile.gpu.vram > 0 /\ VramNeed(d) * 1024 > (profile.gpu.vram + 512) * 10

\* compatibility_for_model and require_model_available
Available(d, profile) == profile.stub \/ d.family = "gguf" \/ ~Unavailable(d, profile)
RuntimeMode(d, profile) ==
  IF profile.stub THEN "stub" ELSE IF Available(d, profile) THEN "real" ELSE "disabled"
Recommendation(d, profile) ==
  CASE RuntimeMode(d, profile) = "disabled" -> "hidden"
    [] RuntimeMode(d, profile) = "stub" \/ d.family \notin Families -> "neutral"
    [] RuntimeMode(d, profile) = "real" /\ d.family \in profile.policy.recommended -> "recommended"
    [] RuntimeMode(d, profile) = "real" /\ d.family \in profile.policy.advanced -> "advanced"
    [] OTHER -> "neutral"
===============================================================================
