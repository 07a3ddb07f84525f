------------------------------- MODULE Sm86Table -------------------------------
(***************************************************************************)
(* The decode table (sm86_decoder_generated.rs) and the state of the       *)
(* handlers (sm86.rs).                                                     *)
(*                                                                         *)
(* translate is one chain of else-ifs.  Every row compares the same key of *)
(* the 128-bit instruction, bit 91 followed by bits 11..0, with a literal, *)
(* and calls one handler.  The 1271 rows stand in 202 runs of consecutive  *)
(* rows with the same handler; a run is <<handler, keys of its rows>> here *)
(* (two pairs where a run crosses from one RowsN to the next).  Which of   *)
(* the rows of a run matches makes no difference.                          *)
(*                                                                         *)
(* Of the 202 handlers, 199 take the fields out of the instruction and end *)
(* in todo!(), which panics; TodoN name them.                              *)
(***************************************************************************)
EXTENDS Integers, Sequences, FiniteSetsExt

Rows1 == <<
    <<"al2p", {\h920}>>, <<"ald", {\h321, \h1521}>>, <<"arrives", {\h19B0}>>,
    <<"ast", {\h322, \h1522}>>, <<"atom", {\h38A, \h1F8A, \h38B, \h198A}>>,
    <<"atomg", {\h3A8, \h3A9, \h19A8}>>, <<"atoms", {\h38C, \h1F8C, \h38D, \h198C}>>,
    <<"b2r", {\h31C}>>, <<"bar", {\hB1D, \h91D, \h51D, \h31D}>> >>

Rows2 == <<
    <<"bar", {\h51D, \h31D}>>, <<"bitextract", {\h241}>>, <<"bmma", {\h23D}>>,
    <<"bmov", {\h355, \hF55, \hB57, \h1B57, \h957, \h357, \h1D57, \hB56, \h1B56, \h956, \h356, \h1D56, \hF56}>>,
    <<"bmsk", {\hA1B, \h1A1B, \h21B, \h1C1B, \h81B}>>, <<"bpt", {\h95C}>>,
    <<"bra", {\h947, \h1947, \h1547}>>, <<"break_", {\h942}>>,
    <<"brev", {\hB01, \h1B01, \h301, \h1D01, \h901}>>, <<"brx", {\h949}>>, <<"brxu", {\h1958}>>,
    <<"bssy", {\h945}>>, <<"bsync", {\h941}>>,
    <<"call", {\hB43, \h943, \h343, \h1943, \h944, \h344, \h1944}>>, <<"cctl", {\h98F, \h1D8F}>>,
    <<"cctll", {\h990, \h1D90}>>, <<"cctlt", {\h391, \h1D91, \hB91}>>,
    <<"clmad", {\hA2C, \h1A2C, \h62C}>> >>

Rows3 == <<
    <<"clmad", {\h162C, \h22C, \h1E2C, \h1C2C}>>, <<"cs2r", {\h805}>>, <<"csmtest", {\h80D}>>,
    <<"dadd", {\h629, \h1629, \h229, \h1E29, \h429}>>, <<"depbar", {\h91A}>>,
    <<"dfma", {\hA2B, \h1A2B, \h62B, \h162B, \h22B, \h1E2B, \h42B, \h1C2B, \h82B}>>,
    <<"dmma", {\h23F}>>, <<"dmul", {\hA28, \h1A28, \h228, \h1C28, \h828}>>,
    <<"dsetp", {\h62A, \h162A, \h22A, \h1E2A, \h42A}>>, <<"errbar", {\h9AB}>>,
    <<"exit", {\h94D}>>,
    <<"f2f", {\hB04, \h1B04, \h904, \h304, \h1D04, \hB10, \h1B10, \h910, \h310, \h1D10}>>,
    <<"f2fp", {\hA3E, \h1A3E, \h83E, \h23E, \h1C3E}>> >>

Rows4 == <<
    <<"f2fp", {\h83E, \h63E, \h163E, \h43E, \h23E, \h1E3E, \h1C3E, \hA3E, \h1A3E}>>,
    <<"f2i", {\h1B11, \hB11, \h911, \h311, \h1D11, \h1B05, \hB05, \h905, \h305, \h1D05}>>,
    <<"f2ip", {\hA43, \h1A43, \h843, \h643, \h1643, \h443, \h243, \h1E43, \h1C43}>>,
    <<"fadd", {\h621, \h1621, \h421, \h221, \h1E21}>>, <<"fadd32i", {\h421}>>,
    <<"fchk", {\hB02, \h1B02, \h902, \h302, \h1D02}>>,
    <<"ffma", {\hA23, \h1A23, \h823, \h623, \h1623, \h423, \h223, \h1E23, \h1C23}>> >>

Rows5 == <<
    <<"ffma32i", {\h823}>>, <<"flo", {\hB00, \h1B00, \h300, \h1D00, \h900}>>,
    <<"fmnmx", {\hA09, \h1A09, \h809, \h209, \h1C09}>>,
    <<"fmul", {\hA20, \h1A20, \h820, \h220, \h1C20}>>, <<"fmul32i", {\h820}>>,
    <<"footprint", {\hB72, \h373, \hB74, \h1F74}>>,
    <<"frnd", {\hB07, \h1B07, \h907, \h307, \h1D07, \hB13, \h1B13, \h913, \h313, \h1D13}>>,
    <<"fsel", {\hA08, \h1A08, \h808, \h208, \h1C08}>>,
    <<"fset", {\hA0A, \h1A0A, \h80A, \h20A, \h1C0A}>>,
    <<"fsetp", {\hA0B, \h1A0B, \h80B, \h20B, \h1C0B}>>, <<"fswzadd", {\h822}>>,
    <<"gather", {\h241}>>, <<"genmetadata", {\h242}>>, <<"getlmembase", {\h3C0}>>,
    <<"hadd2", {\h630, \h1630, \h430, \h230}>> >>

Rows6 == <<
    <<"hadd2", {\h1E30, \h430, \h630, \h1630, \h230}>>, <<"hadd2_32i", {\h430}>>,
    <<"hfma2", {\hA31, \h1A31, \h831, \h631, \h1631, \h431, \h231, \h1E31, \h1C31}>>,
    <<"hfma2_mma", {\hA35, \h1A35, \h835, \h635, \h1635, \h435, \h235, \h1E35, \h1C35}>>,
    <<"hfma2_32i", {\h831}>>, <<"hmma", {\h23C, \h1E79}>>,
    <<"hmnmx2", {\hA40, \h1A40, \h840, \h240, \h1C40}>>,
    <<"hmul2", {\hA32, \h1A32, \h832, \h232, \h1C32}>>, <<"hmul2_32i", {\h832}>>,
    <<"hset2", {\h633, \h1633, \h433, \h233, \h1E33}>>,
    <<"hsetp2", {\h634, \h1634, \h434, \h234, \h1E34}>> >>

Rows7 == <<
    <<"hsetp2", {\h634, \h1634, \h434, \h234, \h1E34}>>,
    <<"i2f", {\h1B12, \hB12, \h912, \h312, \h1D12, \h1B06, \hB06, \h906, \h306, \h1D06}>>,
    <<"i2fp", {\hA45, \h1A45, \h245, \h1C45, \h845}>>,
    <<"i2i", {\hA38, \h1A38, \h238, \h1C38, \h838}>>,
    <<"i2ip", {\hA39, \h1A39, \h239, \h1C39, \h839}>> >>

Rows8 == <<
    <<"i2ip", {\h839, \hA39, \h1A39, \h239, \h1C39}>>,
    <<"iabs", {\hA13, \h1A13, \h213, \h1C13, \h813}>>,
    <<"iadd", {\h810, \hA10, \h1A10, \h210, \h1C10}>>,
    <<"iadd3", {\h810, \hA10, \h1A10, \h210, \h1C10}>>, <<"iadd32i", {\h810}>>,
    <<"ide", {\h951}>>, <<"idp", {\hA26, \h1A26, \h226, \h1C26}>>,
    <<"idp4a", {\hA26, \h1A26, \h226, \h1C26}>>,
    <<"imad", {\hA24, \h1A24, \h624, \h1624, \h224, \h1E24, \h424, \h1C24, \h824, \hA27, \h1A27, \h627, \h1627, \h227, \h1E27, \h1C27, \h827}>> >>

Rows9 == <<

    <<"imad", {\h827, \hA27, \h1A27, \h627, \h1627, \h227, \h1E27, \h1C27, \hA24, \h1A24, \h624, \h1624, \h224, \h1E24, \h424, \h1C24, \h824, \hA25, \h1A25, \h625, \h1625, \h225, \h1E25, \h1C25, \h825}>> >>

Rows10 == <<
    <<"imad", {\h824}>>, <<"imma", {\h237}>>, <<"imnmx", {\hA17, \h1A17, \h217, \h1C17, \h817}>>,
    <<"imul", {\hA24, \h1A24, \h224, \h1C24, \h824, \hA25, \h1A25, \h225, \h1C25, \h825}>>,
    <<"imul32i", {\h824, \h825}>>, <<"ipa", {\h326, \hB26, \h926, \h1526, \h1926}>>,
    <<"isberd", {\h923}>>, <<"isbewr", {\h927}>>,
    <<"iscadd", {\h811, \hA11, \h1A11, \h211, \h1C11}>>, <<"iscadd32i", {\h811}>>,
    <<"isetp", {\hA0C, \h1A0C, \h20C, \h1C0C, \h80C}>>,
    <<"jmp", {\hB4A, \h1B4A, \h174A, \h94A, \h194A, \h154A}>>, <<"jmx", {\h94C}>>,
    <<"jmxu", {\h1959}>>, <<"kill", {\h95B}>>, <<"ld", {\h980, \h1980}>> >>

Rows11 == <<
    <<"ldc", {\hB82, \h1582}>>, <<"ldg", {\h381, \h1981}>>, <<"ldgdepbar", {\h9AF}>>,
    <<"ldgsts", {\h1FAE, \h1DAE}>>, <<"ldl", {\h983, \h1983}>>, <<"lds", {\h984, \h1984}>>,
    <<"ldsm", {\h183B, \h83B}>>, <<"ldtram", {\h13AD}>>,
    <<"lea", {\h411, \h811, \hA11, \h1A11, \h211, \h1C11}>>, <<"lepc", {\h34E}>>,
    <<"lop", {\h812, \hA12, \h1A12, \h212, \h1C12}>>, <<"lop3", {\h812}>> >>

Rows12 == <<
    <<"lop3", {\hA12, \h1A12, \h212, \h1C12, \h812}>>, <<"lop32i", {\h812}>>,
    <<"match_", {\h3A1}>>, <<"membar", {\h992}>>,
    <<"mov", {\hA02, \h1A02, \h802, \h202, \h1C02, \h1A78, \h1878, \h1478, \h1C78}>>,
    <<"mov32i", {\h802}>>, <<"movm", {\h23A}>>,
    <<"mufu", {\hB08, \h1B08, \h908, \h308, \h1D08}>>,
    <<"nanosleep", {\hB5D, \h1B5D, \h95D, \h35D, \h1D5D}>>,
    <<"nanotrap", {\hB5A, \h1B5A, \h95A, \h35A, \h1D5A}>>, <<"nop", {\h918}>>,
    <<"out", {\h324, \h924, \h1D24}>>, <<"p2r", {\hA03, \h1A03, \h203, \h1C03, \h803}>>,
    <<"pixld", {\h925}>>, <<"plop3", {\h81C, \hA1D, \h1A1D, \h21D}>> >>

Rows13 == <<

    <<"plop3", {\h1C1D, \hA1E, \h1A1E, \h21E, \h1C1E, \hA1F, \h1A1F, \h21F, \h1C1F, \h81C, \hA1D, \h1A1D, \h21D}>>,
    <<"pmtrig", {\h801}>>, <<"popc", {\hB09, \h1B09, \h309, \h1D09, \h909}>>,
    <<"prmt", {\hA16, \h1A16, \h616, \h1616, \h216, \h1E16, \h416, \h1C16, \h816}>>,
    <<"psetp", {\h81C}>>, <<"qspc", {\h3AA, \h19AA}>>, <<"r2b", {\h31E}>>,
    <<"r2p", {\hA04, \h1A04, \h804, \h204, \h1C04}>>, <<"r2ur", {\h3C2}>>,
    <<"red", {\h98E, \h198E}>>, <<"redux", {\h3C4}>>, <<"ret", {\h950, \h1950}>> >>

Rows14 == <<
    <<"ret", {\h1950, \h950}>>,
    <<"rpcmov", {\h1B54, \hB54, \h954, \h1D54, \h352, \h1B52, \h1D52, \hB52, \h952, \h353}>>,
    <<"rtt", {\h94F}>>, <<"s2r", {\h919}>>, <<"s2ur", {\h9C3}>>, <<"scatter", {\h218}>>,
    <<"sel", {\hA07, \h1A07, \h207, \h1C07, \h807}>>, <<"setctaid", {\h31F}>>,
    <<"setlmembase", {\h3C1}>>, <<"sgxt", {\hA1A, \h1A1A, \h21A, \h1C1A, \h81A}>>,
    <<"shf", {\hA19, \h1A19, \h619, \h1619, \h219, \h1E19, \h419, \h1C19, \h819}>>,
    <<"shfl", {\hF89, \h989, \h589, \h389}>>,
    <<"shl", {\hA19, \h1A19, \h219, \h1C19, \h819, \h419}>>,
    <<"shr", {\hA19, \h1A19, \h819, \h219, \h1C19}>>, <<"spmetadata", {\h20E}>>,
    <<"st", {\h385, \h1985}>>, <<"stg", {\h386, \h1986}>>, <<"stl", {\h387, \h1987}>>,
    <<"sts", {\h388, \h1988}>> >>

Rows15 == <<
    <<"suatom", {\h595, \h396, \h795, \h1F95, \h593, \h394, \h793, \h1F93}>>,
    <<"suld", {\hB99, \h99A, \h799, \h1F99, \hB97, \h998, \h797, \h1F97}>>,
    <<"suquery", {\hBB3, \h9B3, \h7B3, \h1FB3}>>, <<"sured", {\h59F, \h3A0, \h79F, \h1F9F}>>,
    <<"sust", {\hB9D, \h99E, \h79D, \h1F9D, \hB9B, \h99C, \h79B, \h1F9B}>>,
    <<"tex", {\hB60, \h361, \hB62, \h1F60}>>, <<"tld", {\hB66, \h367, \hB68, \h1F66}>>,
    <<"tld4", {\hB63, \h364, \hB65, \h1F63}>>, <<"tmml", {\hB69, \h36A, \hB6B, \h1F69}>>,
    <<"ttucctl", {\h3D5}>>, <<"ttuclose", {\h3D2}>>, <<"ttugo", {\h3D3}>>, <<"ttuld", {\h3D2}>>,
    <<"ttumacrofuse", {\h9D4}>>, <<"ttuopen", {\h3D0}>>, <<"ttust", {\h3D1}>> >>

Rows16 == <<
    <<"txd", {\hB6C, \h36D, \hB6E, \h1F6C}>>, <<"txq", {\hB6F, \h370, \hB71, \h1F6F}>>,
    <<"ubmsk", {\h129B, \h189B}>>, <<"ubrev", {\h12BE, \h18BE}>>, <<"uclea", {\h18BC, \h1CBC}>>,
    <<"uf2fp", {\h18BA, \h12BA, \h14BA}>>, <<"uflo", {\h12BD, \h18BD}>>,
    <<"uiadd3", {\h1290, \h1890}>>, <<"uiadd3_64", {\h1297, \h1897}>>,
    <<"uimad", {\h12A4, \h14A4, \h18A4, \h12A5, \h18A5}>>, <<"uisetp", {\h128C, \h188C}>>,
    <<"uldc", {\hAB9, \h1AB9, \h18B8, \h1ABB}>>, <<"ulea", {\h1491, \h1891, \h1291}>>,
    <<"ulop", {\h1892, \h1292}>>, <<"ulop3", {\h1892}>> >>

Rows17 == <<
    <<"ulop3", {\h1292, \h1892}>>, <<"ulop32i", {\h1892}>>, <<"umov", {\h882, \h1C82}>>,
    <<"up2ur", {\h1883, \h1C83}>>, <<"uplop3", {\h89C, \h129D, \h129E, \h129F}>>,
    <<"upopc", {\h12BF, \h18BF}>>, <<"uprmt", {\h1896, \h1296}>>, <<"upsetp", {\h89C}>>,
    <<"ur2up", {\h1884, \h1C84}>>, <<"usel", {\h1287, \h1887}>>, <<"usgxt", {\h129A, \h189A}>>,
    <<"ushf", {\h1299, \h1499, \h1899}>>, <<"ushl", {\h1299, \h1899, \h1499}>>,
    <<"ushr", {\h1899, \h1299}>>,
    <<"vabsdiff", {\hA14, \h1A14, \h614, \h1614, \h214, \h1E14, \h414, \h1C14, \h814}>>,
    <<"vabsdiff4", {\hA15, \h1A15, \h615, \h1615, \h215, \h1E15, \h415, \h1C15, \h815}>>,
    <<"vote", {\h806}>>, <<"voteu", {\h886}>>, <<"vote_vtg", {\h80D}>>,
    <<"warpsync", {\hB48, \h1B48, \h948, \h348, \h1D48}>>, <<"yield_", {\h946}>> >>

Todo1 == {
    "ald", "arrives", "ast", "atom", "atomg", "atoms", "b2r", "bar"}

Todo2 == {
    "bitextract", "bmma", "bmov", "bmsk", "bpt", "bra", "break_", "brev", "brx"}

Todo3 == {
    "brxu", "bssy", "bsync", "call", "cctl", "cctll", "cctlt", "clmad", "cs2r", "csmtest"}

Todo4 == {
    "dadd", "depbar", "dfma", "dmma", "dmul", "dsetp", "errbar", "exit"}

Todo5 == {
    "f2f", "f2fp", "f2i", "f2ip", "fadd", "fadd32i", "fchk"}

Todo6 == {
    "ffma", "ffma32i", "flo", "fmnmx", "fmul", "fmul32i", "footprint"}

Todo7 == {
    "frnd", "fsel", "fset", "fsetp", "fswzadd", "gather", "genmetadata"}

Todo8 == {
    "getlmembase", "hadd2", "hadd2_32i", "hfma2", "hfma2_mma", "hfma2_32i"}

Todo9 == {
    "hmma", "hmnmx2", "hmul2", "hmul2_32i", "hset2", "hsetp2"}

Todo10 == {
    "i2f", "i2fp", "i2i", "i2ip", "iabs", "iadd", "iadd3", "iadd32i"}

Todo11 == {
    "ide", "idp", "idp4a", "imad", "imma", "imnmx", "imul"}

Todo12 == {
    "imul32i", "ipa", "isberd", "isbewr", "iscadd", "iscadd32i", "isetp"}

Todo13 == {
    "jmp", "jmx", "jmxu"}

Todo14 == {
    "ld", "ldc", "ldg", "ldgdepbar", "ldgsts", "ldl", "lds", "ldsm"}

Todo15 == {
    "ldtram", "lea", "lepc", "lop", "lop3", "lop32i", "match_", "membar", "mov"}

Todo16 == {
    "mov32i", "movm", "mufu", "nanosleep", "nanotrap"}

Todo17 == {
    "out", "p2r", "pixld", "plop3", "pmtrig", "popc", "prmt", "psetp", "qspc"}

Todo18 == {
    "r2b", "r2p", "r2ur", "red", "redux", "ret", "rpcmov", "rtt", "s2r", "s2ur"}

Todo19 == {
    "scatter", "sel", "setctaid", "setlmembase", "sgxt", "shf", "shfl", "shl", "shr"}

Todo20 == {
    "spmetadata", "st", "stg", "stl", "sts", "suatom", "suld", "suquery"}

Todo21 == {
    "sured", "sust", "tex", "tld", "tld4", "tmml"}

Todo22 == {
    "ttucctl", "ttuclose", "ttugo", "ttuld", "ttumacrofuse", "ttuopen", "ttust", "txd", "txq",
    "ubmsk"}

Todo23 == {
    "ubrev", "uclea", "uf2fp", "uflo", "uiadd3", "uiadd3_64", "uimad", "uisetp"}

Todo24 == {
    "uldc", "ulea", "ulop", "ulop3", "ulop32i", "umov", "up2ur", "uplop3"}

Todo25 == {
    "upopc", "uprmt", "upsetp", "ur2up", "usel", "usgxt", "ushf", "ushl", "ushr"}

Todo26 == {
    "vabsdiff", "vabsdiff4", "vote", "voteu", "vote_vtg", "warpsync", "yield_"}

Table ==
    Rows1 \o Rows2 \o Rows3 \o Rows4 \o Rows5 \o Rows6 \o Rows7 \o Rows8
    \o Rows9 \o Rows10 \o Rows11 \o Rows12 \o Rows13 \o Rows14 \o Rows15
    \o Rows16 \o Rows17

Unimplemented ==
    Todo1 \cup Todo2 \cup Todo3 \cup Todo4 \cup Todo5 \cup Todo6 \cup Todo7
    \cup Todo8 \cup Todo9 \cup Todo10 \cup Todo11 \cup Todo12 \cup Todo13
    \cup Todo14 \cup Todo15 \cup Todo16 \cup Todo17 \cup Todo18 \cup Todo19
    \cup Todo20 \cup Todo21 \cup Todo22 \cup Todo23 \cup Todo24 \cup Todo25
    \cup Todo26

Keys == UNION {Table[i][2] : i \in DOMAIN Table}

\* The handler the first matching row calls.
Handler ==
    [k \in Keys |-> Table[Min({i \in DOMAIN Table : k \in Table[i][2]})][1]]

\* The instructions the table knows: a mnemonic, named by the handler its rows
\* call, and a key one of its rows has.
Encodings == UNION {{<<Table[i][1], k>> : k \in Table[i][2]} : i \in DOMAIN Table}
===============================================================================
