----------------------------- MODULE MCServices ------------------------------
(*****************************************************************************)
(* The services around the queue, each on a small instance:                  *)
(* part names the component whose steps are taken; the others, with which it *)
(* shares no state, stay at an initial state of theirs.                      *)
(*****************************************************************************)
EXTENDS Documents, AppSettings, Tools, Gallery, TLC

\* AppSettings
Nv(name, slot, vram, cap) == Card("nvidia", name, slot, vram, cap)
NoTorch == [vendor |-> "none", devices |-> <<>>]
Dev(vendor, name, vram, cap) == [vendor |-> vendor, name |-> name, vram |-> vram, cap |-> cap]
MachinesMC == {
  [os |-> "linux", cards |-> <<Nv("a", "pci1", 8188, <<12, 0>>)>>, smi |-> "new", rocm |-> "not_visible", torch |-> NoTorch],
  [os |-> "linux", cards |-> <<Nv("b", "pci1", 8188, <<8, 6>>), Nv("c", "pci2", 24564, <<7, 5>>)>>, smi |-> "old",
   rocm |-> "not_visible", torch |-> [vendor |-> "nvidia", devices |-> <<Dev("nvidia", "b", 8188, <<8, 6>>), Dev("nvidia", "c", 24564, <<7, 5>>)>>]],
  [os |-> "windows", cards |-> <<Nv("d", "pci1", 11264, <<7, 5>>), Card("amd", "r", "pci2", 16384, <<>>)>>, smi |-> "none",
   rocm |-> "not_visible", torch |-> NoTorch],
  [os |-> "linux", cards |-> <<Card("amd", "r", "pci1", 16384, <<>>), Card("unknown", "u", "pci2", 0, <<>>)>>, smi |-> "none",
   rocm |-> "official", torch |-> [vendor |-> "amd", devices |-> <<Dev("amd", "r", 16384, <<>>), Dev("amd", "t", 8192, <<>>)>>]],
  [os |-> "darwin", cards |-> <<>>, smi |-> "none", rocm |-> "not_visible", torch |-> NoTorch]}
ModelsMC == {Model("sdxl", 65, "none", 0), Model("flux", 65, "nunchaku", 0), Model("flux", 170, "none", 0),
             Model("flux2", 105, "nunchaku", 0), Model("flux2", 320, "bnb", 0), Model("qwen-image", 400, "bnb", 0),
             Model("z-image", 200, "none", 0), Model("gguf", 60, "none", 0), Model("sdxl", 65, "none", 72)}
EnvironmentsMC == {[given |-> <<>>, autotune |-> TRUE], [given |-> [cache |-> "off", context |-> "bf16"], autotune |-> TRUE],
                   [given |-> [stub |-> FALSE], autotune |-> TRUE], [given |-> [stub |-> FALSE, width |-> 4096], autotune |-> FALSE]}
PatchesMC == {[stub |-> FALSE], [lora |-> "", width |-> 777], [attention |-> "flash", tf32 |-> TRUE], [context |-> "turbo3"],
              [attention |-> "bogus", width |-> 64], [host |-> "any"]}
PairsMC == {<<"turbo", "turbo3">>, <<"turbo", Null>>, <<"default", Null>>, <<"default", "turbo2">>}

\* Tools
ToolFilesMC == [t \in ToolNames |-> IF t = "tts" THEN <<"A b", "a-b">> ELSE <<"m">>]
ToolIdMC(f) == IF f = "A b" THEN "a-b" ELSE f

\* Gallery
RawTagsMC == {<<Tag("cat", "Cat", FALSE), Tag("cat", "cat", FALSE), Tag("", "", FALSE),
               Tag("long", "long", TRUE), Tag("dog", "dog", FALSE)>>}

VARIABLE part

ServicesInit ==
  /\ part \in {"documents", "settings", "tools", "gallery"}
  /\ DocInit
  /\ AppSettingsInit /\ (part # "settings" => machine = (CHOOSE m \in Machines : TRUE) /\ env = (CHOOSE e \in Environments : TRUE))
  /\ ToolsInit
  /\ GalleryInit

ServicesNext ==
  \/ part = "documents" /\ DocNext /\ UNCHANGED <<part, appSettingsVars, toolVars, galleryVars>>
  \/ part = "settings" /\ AppSettingsNext /\ UNCHANGED <<part, docVars, toolVars, galleryVars>>
  \/ part = "tools" /\ ToolsNext /\ UNCHANGED <<part, docVars, appSettingsVars, galleryVars>>
  \/ part = "gallery" /\ GalleryNext /\ UNCHANGED <<part, docVars, appSettingsVars, toolVars>>

ServicesSpec == ServicesInit /\ [][ServicesNext]_<<part, docVars, appSettingsVars, toolVars, galleryVars>>

ServicesSymmetry == Permutations(Pictures) \union Permutations(Stems) \union Permutations(Editors)
==============================================================================
