SPECIFICATION Spec
CONSTANTS
    BASE = 4
    MAX_MB_UINT32_BYTES = 3
    MAX_UINT32 = 31
    MAX_DEPTH = 2
    MAX_ELEMENTS = 3
    MAX_INPUT_BYTES = 22
    MAX_XML_BYTES = 11
    MAX_ENCODE_DEPTH = 3
    MAX_ENCODE_ELEMENTS = 4
    MAX_ENCODE_BYTES = 24
    SHARE_OVER = 1
    PUBLIC_IDS = {5, 6}
    CHARSET_UTF8 = 7
    Texts <- MCTexts
    NOISE = {0, 1, 83, 131}
    MAX_EVENTS = 7
INVARIANT RoundTrip
INVARIANT OnlyLimitsRefuse
INVARIANT AcceptedWellFormed
