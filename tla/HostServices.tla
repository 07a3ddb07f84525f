------------------------------ MODULE HostServices ------------------------------
(***************************************************************************)
(* The HLE services (nn/mod.rs).  A service is a struct without fields     *)
(* that puts itself into its field of Services; what it would serve is     *)
(* todo!().  Three lists of the code have to agree: the fields of Services *)
(* (sys/mod.rs), the entries start_host_services runs, and the fields the  *)
(* boot log counts (sys/boot.rs).                                          *)
(***************************************************************************)
EXTENDS Integers, Sequences, Functions, FiniteSets

\* The fields of Services.
Services ==
    {"acc", "adraw", "ahid", "aoc", "apm", "applet_ae", "applet_oe", "arp", "aud", "audctl",
      "auddebug", "auddev", "auddmg", "audin", "audout", "audrec", "audren", "audsmx", "avm",
      "banana", "batlog", "bcat", "bgtc", "bpc", "bpmpmr", "bsd", "bsdcfg", "bt", "btdrv", "btm",
      "btp", "capmtp", "caps", "caps2", "cec_mgr", "chat", "clkrst", "codecctl", "csrng", "dauth",
      "disp", "dispdrv", "dmnt", "dns", "dt", "ectx", "erpt", "es", "eth", "ethc", "eupld", "fan",
      "fatal", "fgm", "file_io", "friend", "fs", "fsp_ldr", "fsp_pr", "fsp_srv", "gds", "gpio",
      "gpuk", "grc", "gsv", "hdcp", "hid", "hidbus", "host1x", "hshl", "htc", "htcs", "hwopus",
      "i2c", "idle", "ifcfg", "imf", "ins", "irs", "jit", "lbl", "ldn", "ldr", "led", "lm", "lp2p",
      "lr", "manu", "mig", "mii", "miiimg", "mm", "mnpp", "ncm", "nd", "ndd", "ndrm", "news",
      "nfc", "nfp", "ngc", "ngct", "nifm", "nim", "notif", "npns", "ns", "nsd", "ntc", "nvdbg",
      "nvdrv", "nvdrvdbg", "nvgem", "nvmemp", "olsc", "omm", "ommdisp", "ovln", "pcie", "pcm",
      "pctl", "pcv", "pdm", "pgl", "pinmux", "pl", "pm", "prepo", "psc", "psm", "pwm", "rgltr",
      "ro", "rtc", "sasbus", "set", "sf_uds", "sfdnsres", "spbg", "spi", "spl", "sprof", "spsm",
      "srepo", "ssl", "syncpt", "tc", "tcap", "time", "tma_log", "tmagent", "ts", "tspm", "uart",
      "usb", "vi", "vi2", "vic", "wlan", "xcd"}

\* The services start_host_services runs, in this order.
HostEntries ==
    <<"acc", "adraw", "ahid", "aoc", "apm", "applet_ae", "applet_oe", "arp", "aud", "audctl",
      "auddebug", "auddev", "auddmg", "audin", "audout", "audrec", "audren", "audsmx", "avm",
      "banana", "batlog", "bcat", "bgtc", "bpc", "bpmpmr", "bsd", "bsdcfg", "bt", "btdrv", "btm",
      "btp", "capmtp", "caps", "caps2", "cec_mgr", "chat", "clkrst", "codecctl", "csrng", "dauth",
      "disp", "dispdrv", "dmnt", "dns", "dt", "ectx", "erpt", "es", "eth", "ethc", "eupld", "fan",
      "fatal", "fgm", "file_io", "friend", "fs", "fsp_ldr", "fsp_pr", "fsp_srv", "gds", "gpio",
      "gpuk", "grc", "gsv", "hdcp", "hid", "hidbus", "host1x", "hshl", "htc", "htcs", "hwopus",
      "i2c", "idle", "ifcfg", "imf", "ins", "irs", "jit", "lbl", "ldn", "ldr", "led", "lm", "lp2p",
      "lr", "manu", "mig", "mii", "miiimg", "mm", "mnpp", "ncm", "nd", "ndd", "ndrm", "news",
      "nfc", "nfp", "ngc", "ngct", "nifm", "nim", "notif", "npns", "ns", "nsd", "ntc", "nvdbg",
      "nvdrv", "nvdrvdbg", "nvgem", "nvmemp", "olsc", "omm", "ommdisp", "ovln", "pcie", "pcm",
      "pctl", "pcv", "pdm", "pgl", "pinmux", "pl", "pm", "prepo", "psc", "psm", "pwm", "rgltr",
      "ro", "rtc", "sasbus", "set", "sf_uds", "sfdnsres", "spbg", "spi", "spl", "sprof", "spsm",
      "srepo", "ssl", "syncpt", "tc", "tcap", "time", "tma_log", "tmagent", "ts", "tspm", "uart",
      "usb", "vi", "vi2", "vic", "wlan", "xcd">>

\* The fields count_services looks at.
Counted ==
    <<"acc", "adraw", "ahid", "aoc", "apm", "applet_ae", "applet_oe", "arp", "aud", "audctl",
      "auddebug", "auddev", "auddmg", "audin", "audout", "audrec", "audren", "audsmx", "avm",
      "banana", "batlog", "bcat", "bgtc", "bpc", "bpmpmr", "bsd", "bsdcfg", "bt", "btdrv", "btm",
      "btp", "capmtp", "caps", "caps2", "cec_mgr", "chat", "clkrst", "codecctl", "csrng", "dauth",
      "disp", "dispdrv", "dmnt", "dns", "dt", "ectx", "erpt", "es", "eth", "ethc", "eupld", "fan",
      "fatal", "fgm", "file_io", "friend", "fs", "fsp_ldr", "fsp_pr", "fsp_srv", "gds", "gpio",
      "gpuk", "grc", "gsv", "hdcp", "hid", "hidbus", "host1x", "hshl", "htc", "htcs", "hwopus",
      "i2c", "idle", "ifcfg", "imf", "ins", "irs", "jit", "lbl", "ldn", "ldr", "led", "lm", "lp2p",
      "lr", "manu", "mig", "mii", "miiimg", "mm", "mnpp", "ncm", "nd", "ndd", "ndrm", "news",
      "nfc", "nfp", "ngc", "ngct", "nifm", "nim", "notif", "npns", "ns", "nsd", "ntc", "nvdbg",
      "nvdrv", "nvdrvdbg", "nvgem", "nvmemp", "olsc", "omm", "ommdisp", "ovln", "pcie", "pcm",
      "pctl", "pcv", "pdm", "pgl", "pinmux", "pl", "pm", "prepo", "psc", "psm", "pwm", "rgltr",
      "ro", "rtc", "sasbus", "set", "sf_uds", "sfdnsres", "spbg", "spi", "spl", "sprof", "spsm",
      "srepo", "ssl", "syncpt", "tc", "tcap", "time", "tma_log", "tmagent", "ts", "tspm", "uart",
      "usb", "vi", "vi2", "vic", "wlan", "xcd">>

\* The fields that are Some after start_host_services: the run of a service fills the
\* one named like it.
start_host_services == Range(HostEntries)

count_services(started) == Cardinality({k \in DOMAIN Counted : Counted[k] \in started})
===================================================================================
